---- MODULE Spec2Model ----
(***************************************************************************)
(* A model of threadpool.py: the ThreadPool (a Queue.Queue of jobs served  *)
(* by Worker threads), the ReturnValue future that a put() hands back, and *)
(* the VLock / Locked pair.  Every thread of the program has a position    *)
(* pc[t]; one action is one step of one thread between two points where    *)
(* another thread may run.                                                 *)
(***************************************************************************)
EXTENDS Integers, Sequences, FiniteSets, TLC

\* ------------------------------------------------------------------ bounds
MaxJobs == 2            \* a put() begins only while fewer futures than this exist
MaxWorkers == 2         \* Worker objects ever created
MaxMaxThreads == 1      \* largest maxThreads a pool is constructed with
MaxShutDowns == 1       \* shutDown() calls
MaxConds == 2           \* threading.Condition objects ever created
MaxLoads == 2           \* load() calls of the loader thread of the future model
MaxHold == 2            \* largest VLock.ownerlocks an acquire() may start from
MaxVLocks == 2          \* VLock objects that may be constructed

\* ----------------------------------------------------------------- threads
\* Thread identities are integers; 0 stands for None.
WorkerIds == 1..MaxWorkers
Client == 101           \* the thread that owns the pool and submits to it
Loader == 100           \* a thread that calls ReturnValue.load directly
Readers == {101, 102}   \* threads that call ReturnValue.eval directly
LockThreads == {101, 102}
Clients == {101, 102}   \* threads that call ThreadPool.put at the same time
Threads == WorkerIds \cup {Loader} \cup Readers \cup LockThreads

\* ------------------------------------------------------------------ values
\* A Python value is a pair <<kind, payload>>.
Unset == <<"unset", 0>>         \* key absent from __dict__
None == <<"none", 0>>
Val(v) == <<"val", v>>
Err(e) == <<"err", e>>          \* a StandardError instance
\* A callable is a pair too: what calling it does.
Returns(v) == <<"ret", v>>      \* returns v
Raises(e) == <<"raise", e>>     \* raises StandardError e
Fatal == <<"fatal", 0>>         \* raises an exception that is no StandardError
Null == <<"null", 0>>           \* None in the callable position
AppFuncs == {Returns(1), Raises(1)}

VARIABLES
    pc,             \* [Threads -> position]
    minThreads, maxThreads, dead, pool, threadCounter,   \* ThreadPool fields
    queue,          \* the Queue.Queue contents: a sequence of jobs
    created,        \* number of Worker objects constructed so far
    busy, wjob,     \* Worker._busy, Worker._job
    job,            \* the local variable job of Worker.run: what line 84 assigned last
    nFutures,       \* number of ReturnValue objects constructed so far
    fValue, fAsExc, fCond,   \* ReturnValue.__dict__: _value, _asException, _condition
    nConds, condOwner, condWaiters,   \* Condition objects: lock owner, waiters
    tf, tc, tval, tasx,      \* thread locals: future operand, the Condition read as the receiver of
                             \* acquire() or waited on, load arguments
    tfunc, snapshot,         \* thread locals of put / checkThreads: the item, the live threads
    tret,           \* thread local: where the calls the thread is in return to, innermost first
    tw, tcnt,       \* thread locals: the new Worker of _addThread, and the value of the
                    \* right-hand side of line 305, 212 or 217 before it is stored
    tidle,          \* thread local of checkThreads: the idle threads line 337 counted
    tidx,           \* thread local of a loop over the tracked threads (the for loop of
                    \* shutDown, the filter of getLiveThreads / getIdleThreads): the
                    \* position of the loop in the list it runs over
    tsame, tlist,   \* that list: tsame = 1 while it is the list self._pool names, and its
                    \* items (tlist) once self._pool names another
    result,         \* [Threads -> outcome of the thread's last finished call]
    funcOf,         \* [future -> the callable it was submitted with]
    nShutDowns, nLoads,      \* how often the bounded calls were made
    tdead,          \* history, by thread: while the thread is in checkThreads, the workers
                    \* that had terminated when it called it
    lock, owner, lqueue, ownerlocks,      \* VLock fields, by VLock: lock (1 = held), owner, queue, ownerlocks
    tblocking, inLocked,     \* thread locals: acquire's argument, inside Locked.__call__
    nVLocks,        \* number of VLock objects constructed so far
    locks,          \* the module's dictionary _locks: [object -> its VLock, 0 for no key]
    tl,             \* thread local: self of acquire / release, lock of getLockFor / lock / unlock
    tobj, tcall     \* thread locals: the object argument, and which of getLockFor / lock / unlock runs

poolVars == <<minThreads, maxThreads, dead, pool, threadCounter, queue, created, busy, wjob, job>>
futVars == <<nFutures, fValue, fAsExc, fCond, funcOf>>
condVars == <<nConds, condOwner, condWaiters>>
frameVars == <<tret, tw, tcnt, tidle, tidx, tsame, tlist>>
localVars == <<tf, tc, tval, tasx, tfunc, snapshot, frameVars>>
countVars == <<nShutDowns, nLoads, tdead>>
regVars == <<nVLocks, locks>>
lockVars == <<lock, owner, lqueue, ownerlocks, tblocking, inLocked, regVars, tl, tobj, tcall>>
vars == <<pc, poolVars, futVars, condVars, localVars, result, countVars, lockVars>>

\* Every put() that has begun gets a future.
FutureIds == 1..(MaxJobs + Cardinality(Clients) - 1)
VLockIds == 1..MaxVLocks
TheLock == 1            \* the VLock a program builds itself and shares
Objects == {1, 2}       \* objects given to getLockFor, lock and unlock
NoJob == [func |-> Null, rv |-> -1]      \* Worker._job = None
Job(fn, f) == [func |-> fn, rv |-> f]    \* rv = 0 stands for None
Sentinel == Job(Null, 0)

\* How a call ended: the operation, whether it returned or raised, and what.
Outcome(o, a, k, v) == [op |-> o, arg |-> a, kind |-> k, val |-> v]
\* The error a Condition / RLock method raises when the calling thread does
\* not hold the lock (wait, notifyAll and release all check ownership).
NotOwned(o, a) == Outcome(o, a, "raised", <<"unacquired", 0>>)
KeyError(o, a) == Outcome(o, a, "raised", <<"keyerror", 0>>)
\* checkThreads, line 333: raise RuntimeError, "This pool has been shut down."
PoolShutDown == Outcome("put", 0, "raised", <<"shutdown", 0>>)

\* ------------------------------------------------------------ initial state
InitCommon ==
    /\ busy = [w \in WorkerIds |-> 0]
    /\ wjob = [w \in WorkerIds |-> NoJob]
    /\ job = [w \in WorkerIds |-> NoJob]
    /\ fValue = [f \in FutureIds |-> Unset]
    /\ fAsExc = [f \in FutureIds |-> -1]
    /\ fCond = [f \in FutureIds |-> 0]
    /\ nConds = 0
    /\ condOwner = [c \in 1..MaxConds |-> 0]
    /\ condWaiters = [c \in 1..MaxConds |-> {}]
    /\ tf = [t \in Threads |-> 0]
    /\ tc = [t \in Threads |-> 0]
    /\ tval = [t \in Threads |-> None]
    /\ tasx = [t \in Threads |-> 0]
    /\ tfunc = [t \in Threads |-> Null]
    /\ snapshot = [t \in Threads |-> <<>>]
    /\ tret = [t \in Threads |-> <<>>]
    /\ tw = [t \in Threads |-> 0]
    /\ tcnt = [t \in Threads |-> 0]
    /\ tidle = [t \in Threads |-> 0]
    /\ tidx = [t \in Threads |-> 0]
    /\ tsame = [t \in Threads |-> 0]
    /\ tlist = [t \in Threads |-> <<>>]
    /\ result = [t \in Threads |-> Outcome("none", 0, "none", None)]
    /\ funcOf = [f \in FutureIds |-> Null]
    /\ nShutDowns = 0
    /\ nLoads = 0
    /\ tdead = [t \in Threads |-> {}]
    /\ lock = [l \in VLockIds |-> 0]
    /\ owner = [l \in VLockIds |-> 0]
    /\ lqueue = [l \in VLockIds |-> <<>>]
    /\ ownerlocks = [l \in VLockIds |-> 0]
    /\ tblocking = [t \in Threads |-> 1]
    /\ inLocked = [t \in Threads |-> 0]
    /\ locks = [o \in Objects |-> 0]
    /\ tl = [t \in Threads |-> 0]
    /\ tobj = [t \in Threads |-> 0]
    /\ tcall = [t \in Threads |-> ""]

\* ThreadPool.__init__: the fields, then checkThreads() on the empty queue,
\* which starts minThreads workers.  minSet and maxSet are what minThreads
\* and maxThreads may be (a pool has minThreads <= maxThreads), callers are
\* the threads of the program that use the pool.
InitPool(minSet, maxSet, callers) ==
    /\ InitCommon
    /\ maxThreads \in maxSet
    /\ minThreads \in {n \in 0..maxThreads : n \in minSet}
    /\ dead = 0
    /\ pool = [i \in 1..minThreads |-> i]
    /\ threadCounter = minThreads
    /\ created = minThreads
    /\ queue = <<>>
    /\ nFutures = 0
    /\ nVLocks = 0
    /\ pc = [t \in Threads |-> IF t \in 1..minThreads THEN "w_top"
                               ELSE IF t \in callers THEN "idle" ELSE "off"]

\* ------------------------------------------------------------- ReturnValue
\* A run() that takes no job for the command to terminate.
IsSentinel_Never(fn) == FALSE

\* run, line 89: not job[0]
IsSentinel(fn) == fn = Null

\* Where a thread continues when the load() it called is over.  A worker calls
\* load from run(): after the sentinel's load it returns from run (line 95),
\* after a job's load it goes on to clear _job; an exception out of load is
\* outside run's try block and leaves run.  The thread is alive until run is
\* over.
AfterLoad(t, raised) ==
    IF t \in WorkerIds
    THEN IF raised \/ IsSentinel(wjob[t].func) THEN "w_exit" ELSE "w_clear"
    ELSE "idle"

\* A call is over: its frame (the locals of eval or load) is gone, and a
\* thread other than a worker keeps the outcome.
EndCall(t, nextpc, outcome) ==
    /\ pc' = [pc EXCEPT ![t] = nextpc]
    /\ tf' = [tf EXCEPT ![t] = 0]
    /\ tc' = [tc EXCEPT ![t] = 0]
    /\ tval' = [tval EXCEPT ![t] = None]
    /\ tasx' = [tasx EXCEPT ![t] = 0]
    /\ result' = IF t \in WorkerIds THEN result ELSE [result EXCEPT ![t] = outcome]
    /\ UNCHANGED <<tfunc, snapshot, frameVars>>

\* A call goes on at position nextpc.
Goto(t, nextpc) ==
    /\ pc' = [pc EXCEPT ![t] = nextpc]
    /\ UNCHANGED <<localVars, result>>

\* An eval() that never finds a value.
HasValue_Never(f) == FALSE

\* eval, line 122: self.__dict__.has_key("_value")
HasValue(f) == fValue[f] # Unset

\* eval, line 122: if not self.__dict__.has_key("_value")
EvalCheck(t) ==
    /\ pc[t] = "ev_check"
    /\ Goto(t, IF HasValue(tf[t]) THEN "ev_read" ELSE "ev_mkcond")
    /\ UNCHANGED <<poolVars, futVars, condVars, countVars, lockVars>>

\* eval, line 123: self.__dict__['_condition'] = threading.Condition()
EvalMakeCondition(t) ==
    /\ pc[t] = "ev_mkcond"
    /\ nConds < MaxConds
    /\ nConds' = nConds + 1
    /\ fCond' = [fCond EXCEPT ![tf[t]] = nConds + 1]
    /\ Goto(t, "ev_cond")
    /\ UNCHANGED <<poolVars, nFutures, fValue, fAsExc, funcOf, condOwner, condWaiters,
                   countVars, lockVars>>

\* eval, line 124, the receiver: self._condition, the Condition stored in the
\* future now, which is the one acquire() is then called on.
EvalCondition(t) ==
    /\ pc[t] = "ev_cond"
    /\ tc' = [tc EXCEPT ![t] = fCond[tf[t]]]
    /\ pc' = [pc EXCEPT ![t] = "ev_acq"]
    /\ UNCHANGED <<poolVars, futVars, condVars, tf, tval, tasx, tfunc, snapshot, frameVars,
                   result, countVars, lockVars>>

\* eval, line 124, the call: acquire() of that Condition, which blocks while
\* another thread holds it, whatever the future stores meanwhile.
EvalAcquire(t) ==
    /\ pc[t] = "ev_acq"
    /\ condOwner[tc[t]] = 0
    /\ condOwner' = [condOwner EXCEPT ![tc[t]] = t]
    /\ Goto(t, "ev_wait")
    /\ UNCHANGED <<poolVars, futVars, nConds, condWaiters, countVars, lockVars>>

\* eval, line 125: self._condition.wait() on the Condition stored now (the
\* call does not block before it has tested the owner): releases the lock
\* and sleeps; raises when that Condition is not the one this thread
\* acquired.
EvalWait(t) ==
    /\ pc[t] = "ev_wait"
    /\ LET c == fCond[tf[t]] IN
         IF condOwner[c] = t
         THEN /\ condOwner' = [condOwner EXCEPT ![c] = 0]
              /\ condWaiters' = [condWaiters EXCEPT ![c] = @ \cup {t}]
              /\ tc' = [tc EXCEPT ![t] = c]
              /\ pc' = [pc EXCEPT ![t] = "ev_waiting"]
              /\ UNCHANGED <<tf, tval, tasx, tfunc, snapshot, frameVars, result>>
         ELSE /\ EndCall(t, "idle", NotOwned("eval", tf[t]))
              /\ UNCHANGED <<condOwner, condWaiters>>
    /\ UNCHANGED <<poolVars, futVars, nConds, countVars, lockVars>>

\* eval, line 125, second half: a notified waiter takes the lock again and
\* wait() returns.
EvalWake(t) ==
    /\ pc[t] = "ev_waiting"
    /\ t \notin condWaiters[tc[t]]
    /\ condOwner[tc[t]] = 0
    /\ condOwner' = [condOwner EXCEPT ![tc[t]] = t]
    /\ Goto(t, "ev_rel")
    /\ UNCHANGED <<poolVars, futVars, nConds, condWaiters, countVars, lockVars>>

\* eval, line 126: self._condition.release()
EvalRelease(t) ==
    /\ pc[t] = "ev_rel"
    /\ LET c == fCond[tf[t]] IN
         IF condOwner[c] = t
         THEN /\ condOwner' = [condOwner EXCEPT ![c] = 0]
              /\ Goto(t, "ev_read")
         ELSE /\ EndCall(t, "idle", NotOwned("eval", tf[t]))
              /\ UNCHANGED condOwner
    /\ UNCHANGED <<poolVars, futVars, nConds, condWaiters, countVars, lockVars>>

\* eval, line 127: if self.__dict__['_asException']
EvalReadFlag(t) ==
    /\ pc[t] = "ev_read"
    /\ IF fAsExc[tf[t]] = -1
       THEN EndCall(t, "idle", KeyError("eval", tf[t]))
       ELSE /\ tasx' = [tasx EXCEPT ![t] = fAsExc[tf[t]]]
            /\ pc' = [pc EXCEPT ![t] = "ev_ret"]
            /\ UNCHANGED <<tf, tc, tval, tfunc, snapshot, frameVars, result>>
    /\ UNCHANGED <<poolVars, futVars, condVars, countVars, lockVars>>

\* An eval() that returns the stored value whatever the flag says.
EvalOutcome_IgnoreFlag(f, asx, v) == Outcome("eval", f, "returned", v)

\* eval, line 128: what "raise self._value" raises.  An instance of an
\* exception class is raised as it is; for any other object (a number, None)
\* the raise statement itself fails with TypeError, "exceptions must be
\* old-style classes or derived from BaseException".
RaiseOf(v) == IF v[1] = "err" THEN v ELSE <<"typeerror", 0>>

\* What eval of future f hands its caller once it has read the flag and the
\* value: lines 128 and 130.
EvalOutcome(f, asx, v) ==
    IF asx # 0
    THEN Outcome("eval", f, "raised", RaiseOf(v))
    ELSE Outcome("eval", f, "returned", v)

\* eval, lines 128-130: raise self._value / return self._value
EvalReturn(t) ==
    /\ pc[t] = "ev_ret"
    /\ EndCall(t, "idle", EvalOutcome(tf[t], tasx[t], fValue[tf[t]]))
    /\ UNCHANGED <<poolVars, futVars, condVars, countVars, lockVars>>

EvalStep(t) ==
    \/ EvalCheck(t) \/ EvalMakeCondition(t) \/ EvalCondition(t) \/ EvalAcquire(t)
    \/ EvalWait(t) \/ EvalWake(t) \/ EvalRelease(t) \/ EvalReadFlag(t) \/ EvalReturn(t)

\* load, line 133: self.__dict__['_asException'] = asException
LoadFlag(t) ==
    /\ pc[t] = "ld_asx"
    /\ fAsExc' = [fAsExc EXCEPT ![tf[t]] = tasx[t]]
    /\ Goto(t, "ld_val")
    /\ UNCHANGED <<poolVars, nFutures, fValue, fCond, funcOf, condVars, countVars, lockVars>>

\* load, line 134: self.__dict__['_value'] = val
LoadValue(t) ==
    /\ pc[t] = "ld_val"
    /\ fValue' = [fValue EXCEPT ![tf[t]] = tval[t]]
    /\ Goto(t, "ld_check")
    /\ UNCHANGED <<poolVars, nFutures, fAsExc, fCond, funcOf, condVars, countVars, lockVars>>

\* load, line 135: if self.__dict__.has_key("_condition")
LoadCheck(t) ==
    /\ pc[t] = "ld_check"
    /\ IF fCond[tf[t]] # 0
       THEN Goto(t, "ld_cond")
       ELSE EndCall(t, AfterLoad(t, FALSE), Outcome("load", tf[t], "returned", None))
    /\ UNCHANGED <<poolVars, futVars, condVars, countVars, lockVars>>

\* load, line 136, the receiver: self._condition, the Condition stored in the
\* future now.
LoadCondition(t) ==
    /\ pc[t] = "ld_cond"
    /\ tc' = [tc EXCEPT ![t] = fCond[tf[t]]]
    /\ pc' = [pc EXCEPT ![t] = "ld_acq"]
    /\ UNCHANGED <<poolVars, futVars, condVars, tf, tval, tasx, tfunc, snapshot, frameVars,
                   result, countVars, lockVars>>

\* load, line 136, the call: acquire() of that Condition, which blocks while
\* another thread holds it.
LoadAcquire(t) ==
    /\ pc[t] = "ld_acq"
    /\ condOwner[tc[t]] = 0
    /\ condOwner' = [condOwner EXCEPT ![tc[t]] = t]
    /\ Goto(t, "ld_notify")
    /\ UNCHANGED <<poolVars, futVars, nConds, condWaiters, countVars, lockVars>>

\* load, line 137: self._condition.notifyAll()
LoadNotifyAll(t) ==
    /\ pc[t] = "ld_notify"
    /\ LET c == fCond[tf[t]] IN
         IF condOwner[c] = t
         THEN /\ condWaiters' = [condWaiters EXCEPT ![c] = {}]
              /\ Goto(t, "ld_rel")
         ELSE /\ EndCall(t, AfterLoad(t, TRUE), NotOwned("load", tf[t]))
              /\ UNCHANGED condWaiters
    /\ UNCHANGED <<poolVars, futVars, nConds, condOwner, countVars, lockVars>>

\* load, line 138: self._condition.release()
LoadRelease(t) ==
    /\ pc[t] = "ld_rel"
    /\ LET c == fCond[tf[t]] IN
         IF condOwner[c] = t
         THEN /\ condOwner' = [condOwner EXCEPT ![c] = 0]
              /\ EndCall(t, AfterLoad(t, FALSE), Outcome("load", tf[t], "returned", None))
         ELSE /\ EndCall(t, AfterLoad(t, TRUE), NotOwned("load", tf[t]))
              /\ UNCHANGED condOwner
    /\ UNCHANGED <<poolVars, futVars, nConds, condWaiters, countVars, lockVars>>

LoadStep(t) ==
    \/ LoadFlag(t) \/ LoadValue(t) \/ LoadCheck(t)
    \/ LoadCondition(t) \/ LoadAcquire(t) \/ LoadNotifyAll(t) \/ LoadRelease(t)

\* ------------------------------------------------------------------ Worker
\* Thread.isAlive(): started and run() not yet over.
isAlive(w) == pc[w] \notin {"off", "dead"}

\* run, line 83: self._busy = 0
WorkerTop(w) ==
    /\ pc[w] = "w_top"
    /\ busy' = [busy EXCEPT ![w] = 0]
    /\ pc' = [pc EXCEPT ![w] = "w_get"]
    /\ UNCHANGED <<minThreads, maxThreads, dead, pool, threadCounter, queue, created, wjob, job,
                   futVars, condVars, localVars, result, countVars, lockVars>>

\* A Queue.get that takes the newest item.
QueueGet_Newest(q) == <<q[Len(q)], SubSeq(q, 1, Len(q) - 1)>>

\* A Queue.get that leaves the item in the queue.
QueueGet_NoRemove(q) == <<Head(q), q>>

\* Queue.get on a queue that is not empty: <<the oldest item, the rest>>.
QueueGet(q) == <<Head(q), Tail(q)>>

\* run, line 84: job = self._getJob(), Queue.get: blocks while the queue is
\* empty, takes the oldest item.
WorkerGet(w) ==
    /\ pc[w] = "w_get"
    /\ queue # <<>>
    /\ job' = [job EXCEPT ![w] = QueueGet(queue)[1]]
    /\ queue' = QueueGet(queue)[2]
    /\ pc' = [pc EXCEPT ![w] = "w_busy"]
    /\ UNCHANGED <<minThreads, maxThreads, dead, pool, threadCounter, created, busy, wjob,
                   futVars, condVars, localVars, result, countVars, lockVars>>

\* A run() that goes on without line 87.
WorkerBusy_Skip(w) ==
    /\ pc[w] = "w_busy"
    /\ pc' = [pc EXCEPT ![w] = "w_setjob"]
    /\ UNCHANGED <<poolVars, futVars, condVars, localVars, result, countVars, lockVars>>

\* run, line 87: self._busy = 1
WorkerBusy(w) ==
    /\ pc[w] = "w_busy"
    /\ busy' = [busy EXCEPT ![w] = 1]
    /\ pc' = [pc EXCEPT ![w] = "w_setjob"]
    /\ UNCHANGED <<minThreads, maxThreads, dead, pool, threadCounter, queue, created, wjob, job,
                   futVars, condVars, localVars, result, countVars, lockVars>>

\* run, line 88: self._job = job
WorkerSetJob(w) ==
    /\ pc[w] = "w_setjob"
    /\ wjob' = [wjob EXCEPT ![w] = job[w]]
    /\ pc' = [pc EXCEPT ![w] = "w_run"]
    /\ UNCHANGED <<minThreads, maxThreads, dead, pool, threadCounter, queue, created, busy, job,
                   futVars, condVars, localVars, result, countVars, lockVars>>

\* A run() that sets asException on both paths of its try block.
CallResult_FlagAlways(fn) ==
    IF fn[1] = "ret" THEN <<Val(fn[2]), 1>> ELSE <<Err(fn[2]), 1>>

\* What job[0]() gives run's try block: <<val, asException>>.
CallResult(fn) ==
    IF fn[1] = "ret" THEN <<Val(fn[2]), 0>> ELSE <<Err(fn[2]), 1>>

\* A run() whose except clause catches everything.
Escapes_Never(fn) == FALSE

\* A run() whose except clause catches nothing.
Escapes_AnyError(fn) == fn[1] # "ret"

\* run, lines 97-100: does job[0]() raise something that
\* "except StandardError" does not catch?
Escapes(fn) == fn = Fatal

\* run, lines 89-106.  An empty job[0] is the command to terminate: load None
\* into job[1] if there is one, and return.  Otherwise call job[0]: a
\* StandardError is caught and becomes the value, any other exception leaves
\* run(); then load the value into job[1] if there is one.
WorkerRun(w) ==
    /\ pc[w] = "w_run"
    /\ LET fn == job[w].func
           rv == job[w].rv IN
         IF IsSentinel(fn)
         THEN IF rv # 0
              THEN /\ tf' = [tf EXCEPT ![w] = rv]
                   /\ tval' = [tval EXCEPT ![w] = None]
                   /\ tasx' = [tasx EXCEPT ![w] = 0]
                   /\ pc' = [pc EXCEPT ![w] = "ld_asx"]
              ELSE /\ pc' = [pc EXCEPT ![w] = "dead"]
                   /\ UNCHANGED <<tf, tval, tasx>>
         ELSE IF Escapes(fn)
              THEN /\ pc' = [pc EXCEPT ![w] = "dead"]
                   /\ UNCHANGED <<tf, tval, tasx>>
              ELSE IF rv # 0
                   THEN /\ tf' = [tf EXCEPT ![w] = rv]
                        /\ tval' = [tval EXCEPT ![w] = CallResult(fn)[1]]
                        /\ tasx' = [tasx EXCEPT ![w] = CallResult(fn)[2]]
                        /\ pc' = [pc EXCEPT ![w] = "ld_asx"]
                   ELSE /\ pc' = [pc EXCEPT ![w] = "w_clear"]
                        /\ UNCHANGED <<tf, tval, tasx>>
    /\ UNCHANGED <<poolVars, futVars, condVars, tc, tfunc, snapshot, frameVars, result, countVars, lockVars>>

\* run, line 107: self._job = None
WorkerClear(w) ==
    /\ pc[w] = "w_clear"
    /\ wjob' = [wjob EXCEPT ![w] = NoJob]
    /\ pc' = [pc EXCEPT ![w] = "w_top"]
    /\ UNCHANGED <<minThreads, maxThreads, dead, pool, threadCounter, queue, created, busy, job,
                   futVars, condVars, localVars, result, countVars, lockVars>>

WorkerStep(w) ==
    \/ WorkerTop(w) \/ WorkerGet(w) \/ WorkerBusy(w) \/ WorkerSetJob(w)
    \/ WorkerRun(w) \/ WorkerClear(w)

\* run, line 95 (return) after the load of line 94, or the exception of a
\* load leaving run at line 94 or 106: run() is over and the thread ends.
\* Until this step isAlive() is true, whatever the load has released.
WorkerExit(w) ==
    /\ pc[w] = "w_exit"
    /\ pc' = [pc EXCEPT ![w] = "dead"]
    /\ UNCHANGED <<poolVars, futVars, condVars, localVars, result, countVars, lockVars>>

\* -------------------------------------------------------------- ThreadPool
\* getIdleThreads: filter(lambda x: not x.isBusy(), self._pool)
IsIdle(w) == busy[w] = 0
getIdleThreads == SelectSeq(pool, IsIdle)
qsize == Len(queue)

\* A checkThreads that never looks at the flag.
IsShutDown_Never == FALSE

\* checkThreads, line 332: if self._dead
IsShutDown == dead # 0

\* put, line 344, into checkThreads, lines 332-333: raise if the pool is dead.
\* Nothing is held between this test and the statements that follow it.
PutBegin(c, fn) ==
    /\ pc[c] = "idle"
    /\ IF IsShutDown
       THEN /\ result' = [result EXCEPT ![c] = PoolShutDown]
            /\ UNCHANGED <<pc, tfunc, tret, tdead>>
       ELSE /\ nFutures < MaxJobs
            /\ tfunc' = [tfunc EXCEPT ![c] = fn]
            /\ tret' = [tret EXCEPT ![c] = <<"put_enq">>]
            /\ pc' = [pc EXCEPT ![c] = "ct_live"]
            /\ tdead' = [tdead EXCEPT ![c] = {w \in WorkerIds : pc[w] = "dead"}]
            /\ UNCHANGED result
    /\ UNCHANGED <<poolVars, futVars, condVars, tf, tc, tval, tasx, snapshot,
                   tw, tcnt, tidle, tidx, tsame, tlist, nShutDowns, nLoads, lockVars>>

\* checkThreads called on its own (it is a public method), lines 332-333:
\* raise RuntimeError if the pool is dead.
CheckThreadsCall(c) ==
    /\ pc[c] = "idle"
    /\ IF IsShutDown
       THEN /\ result' = [result EXCEPT ![c] = Outcome("checkThreads", 0, "raised", <<"shutdown", 0>>)]
            /\ UNCHANGED <<pc, tret, tdead>>
       ELSE /\ tret' = [tret EXCEPT ![c] = <<"idle">>]
            /\ pc' = [pc EXCEPT ![c] = "ct_live"]
            /\ tdead' = [tdead EXCEPT ![c] = {w \in WorkerIds : pc[w] = "dead"}]
            /\ UNCHANGED result
    /\ UNCHANGED <<poolVars, futVars, condVars, tf, tc, tval, tasx, tfunc, snapshot,
                   tw, tcnt, tidle, tidx, tsame, tlist, nShutDowns, nLoads, lockVars>>

\* The list a loop over the tracked threads runs over.  A list iterator looks
\* the list up before every pass, so the loop sees what is appended to the
\* list meanwhile; an assignment to self._pool leaves the loop on the list it
\* began with, which nobody appends to any more.
IterList(c) == IF tsame[c] = 1 THEN pool ELSE tlist[c]

\* checkThreads, line 334, right-hand side: self.getLiveThreads() is called,
\* and its filter (line 301) is set up on the list self._pool names now.
CheckThreadsLive(c) ==
    /\ pc[c] = "ct_live"
    /\ snapshot' = [snapshot EXCEPT ![c] = <<>>]
    /\ tidx' = [tidx EXCEPT ![c] = 1]
    /\ tsame' = [tsame EXCEPT ![c] = 1]
    /\ tret' = [tret EXCEPT ![c] = <<"ct_prune">> \o @]
    /\ pc' = [pc EXCEPT ![c] = "lv_next"]
    /\ UNCHANGED <<poolVars, futVars, condVars, tf, tc, tval, tasx, tfunc, tw, tcnt, tidle, tlist,
                   result, countVars, lockVars>>

\* getLiveThreads, line 301: one pass of filter(lambda x: x.isAlive(), ...),
\* which asks the next thread of the list and keeps it if it is alive, or the
\* end of the list, where getLiveThreads returns what was kept.
LiveThreadsNext(c) ==
    /\ pc[c] = "lv_next"
    /\ IF tidx[c] <= Len(IterList(c))
       THEN /\ snapshot' = [snapshot EXCEPT ![c] =
                               IF isAlive(IterList(c)[tidx[c]])
                               THEN Append(@, IterList(c)[tidx[c]]) ELSE @]
            /\ tidx' = [tidx EXCEPT ![c] = @ + 1]
            /\ UNCHANGED <<pc, tret, tsame, tlist>>
       ELSE /\ pc' = [pc EXCEPT ![c] = Head(tret[c])]
            /\ tret' = [tret EXCEPT ![c] = Tail(@)]
            /\ tidx' = [tidx EXCEPT ![c] = 0]
            /\ tsame' = [tsame EXCEPT ![c] = 0]
            /\ tlist' = [tlist EXCEPT ![c] = <<>>]
            /\ UNCHANGED snapshot
    /\ UNCHANGED <<poolVars, futVars, condVars, tf, tc, tval, tasx, tfunc, tw, tcnt, tidle,
                   result, countVars, lockVars>>

\* checkThreads, line 334, the assignment: self._pool = (the live threads).
\* self._pool names a new list from here on; a loop that runs over the list
\* it named before keeps that list.
CheckThreadsPrune(c) ==
    /\ pc[c] = "ct_prune"
    /\ pool' = snapshot[c]
    /\ snapshot' = [snapshot EXCEPT ![c] = <<>>]
    /\ tlist' = [t \in Threads |-> IF tsame[t] = 1 THEN pool ELSE tlist[t]]
    /\ tsame' = [t \in Threads |-> 0]
    /\ pc' = [pc EXCEPT ![c] = "ct_min"]
    /\ UNCHANGED <<minThreads, maxThreads, dead, threadCounter, queue, created, busy, wjob, job,
                   futVars, condVars, tf, tc, tval, tasx, tfunc, tret, tw, tcnt, tidle, tidx,
                   result, countVars, lockVars>>

\* checkThreads returns to the position it was called from; called on its
\* own, the thread keeps the outcome.  The history of the call ends with it.
CheckThreadsReturn(c) ==
    /\ pc' = [pc EXCEPT ![c] = Head(tret[c])]
    /\ tret' = [tret EXCEPT ![c] = Tail(@)]
    /\ result' = IF Head(tret[c]) = "idle"
                 THEN [result EXCEPT ![c] = Outcome("checkThreads", 0, "returned", None)] ELSE result
    /\ tdead' = [tdead EXCEPT ![c] = {}]

\* A first loop that never starts a thread.
BelowFloor_Never == FALSE

\* checkThreads, line 335: len(self._pool) < self._minThreads
BelowFloor == Len(pool) < minThreads

\* checkThreads, line 335: while len(self._pool) < self._minThreads; a test
\* that holds leads to line 336, self._addThread().
CheckThreadsMin(c) ==
    /\ pc[c] = "ct_min"
    /\ IF BelowFloor
       THEN /\ pc' = [pc EXCEPT ![c] = "at_new"]
            /\ tret' = [tret EXCEPT ![c] = <<"ct_min">> \o @]
       ELSE /\ pc' = [pc EXCEPT ![c] = "ct_idle"]
            /\ UNCHANGED tret
    /\ UNCHANGED <<poolVars, futVars, condVars, tf, tc, tval, tasx, tfunc, snapshot,
                   tw, tcnt, tidle, tidx, tsame, tlist, result, countVars, lockVars>>

\* checkThreads, line 337, left operand: self.getIdleThreads() is called, and
\* its filter (line 298) is set up on the list self._pool names now.
CheckThreadsIdle(c) ==
    /\ pc[c] = "ct_idle"
    /\ tidle' = [tidle EXCEPT ![c] = 0]
    /\ tidx' = [tidx EXCEPT ![c] = 1]
    /\ tsame' = [tsame EXCEPT ![c] = 1]
    /\ pc' = [pc EXCEPT ![c] = "id_next"]
    /\ UNCHANGED <<poolVars, futVars, condVars, tf, tc, tval, tasx, tfunc, snapshot,
                   tret, tw, tcnt, tlist, result, countVars, lockVars>>

\* getIdleThreads, line 298: one pass of filter(lambda x: not x.isBusy(), ...),
\* which asks the next thread of the list and counts it if it is not busy,
\* or the end of the list, where len() has the number of threads kept.
IdleThreadsNext(c) ==
    /\ pc[c] = "id_next"
    /\ IF tidx[c] <= Len(IterList(c))
       THEN /\ tidle' = [tidle EXCEPT ![c] = IF IsIdle(IterList(c)[tidx[c]]) THEN @ + 1 ELSE @]
            /\ tidx' = [tidx EXCEPT ![c] = @ + 1]
            /\ UNCHANGED <<pc, tsame, tlist>>
       ELSE /\ pc' = [pc EXCEPT ![c] = "ct_grow"]
            /\ tidx' = [tidx EXCEPT ![c] = 0]
            /\ tsame' = [tsame EXCEPT ![c] = 0]
            /\ tlist' = [tlist EXCEPT ![c] = <<>>]
            /\ UNCHANGED tidle
    /\ UNCHANGED <<poolVars, futVars, condVars, tf, tc, tval, tasx, tfunc, snapshot,
                   tret, tw, tcnt, result, countVars, lockVars>>

\* checkThreads, line 337: while (the idle threads counted) < self.qsize();
\* when the test fails checkThreads is over.
CheckThreadsGrow(c) ==
    /\ pc[c] = "ct_grow"
    /\ IF tidle[c] < qsize
       THEN /\ pc' = [pc EXCEPT ![c] = "ct_ceil"]
            /\ UNCHANGED <<tret, result, tdead>>
       ELSE CheckThreadsReturn(c)
    /\ tidle' = [tidle EXCEPT ![c] = 0]
    /\ UNCHANGED <<poolVars, futVars, condVars, tf, tc, tval, tasx, tfunc, snapshot,
                   tw, tcnt, tidx, tsame, tlist, nShutDowns, nLoads, lockVars>>

\* A second loop that never starts a thread.
MayGrow_Never == FALSE

\* A ceiling test that is off by one.
MayGrow_OffByOne == Len(pool) <= maxThreads

\* checkThreads, line 338: len(self._pool) < self._maxThreads
MayGrow == Len(pool) < maxThreads

\* A second loop without the break of line 341: at the ceiling it tests the
\* idle threads against the queue again.
CheckThreadsCeiling_NoBreak(c) ==
    /\ pc[c] = "ct_ceil"
    /\ IF MayGrow
       THEN /\ pc' = [pc EXCEPT ![c] = "at_new"]
            /\ tret' = [tret EXCEPT ![c] = <<"ct_idle">> \o @]
       ELSE /\ pc' = [pc EXCEPT ![c] = "ct_idle"]
            /\ UNCHANGED tret
    /\ UNCHANGED <<poolVars, futVars, condVars, tf, tc, tval, tasx, tfunc, snapshot,
                   tw, tcnt, tidle, tidx, tsame, tlist, result, countVars, lockVars>>

\* checkThreads, lines 338-341: add a thread and go round the loop again
\* unless maxThreads are tracked already; else break, and checkThreads is over.
CheckThreadsCeiling(c) ==
    /\ pc[c] = "ct_ceil"
    /\ IF MayGrow
       THEN /\ pc' = [pc EXCEPT ![c] = "at_new"]
            /\ tret' = [tret EXCEPT ![c] = <<"ct_idle">> \o @]
            /\ UNCHANGED <<result, tdead>>
       ELSE CheckThreadsReturn(c)
    /\ UNCHANGED <<poolVars, futVars, condVars, tf, tc, tval, tasx, tfunc, snapshot,
                   tw, tcnt, tidle, tidx, tsame, tlist, nShutDowns, nLoads, lockVars>>

\* _addThread, line 304: w = Worker(self.get, name = ...); the new Worker
\* has _busy = 0 and _job = None and is not started.
AddThreadNew(c) ==
    /\ pc[c] = "at_new"
    /\ created < MaxWorkers
    /\ created' = created + 1
    /\ tw' = [tw EXCEPT ![c] = created + 1]
    /\ pc' = [pc EXCEPT ![c] = "at_read"]
    /\ UNCHANGED <<minThreads, maxThreads, dead, pool, threadCounter, queue, busy, wjob, job,
                   futVars, condVars, tf, tc, tval, tasx, tfunc, snapshot, tret, tcnt, tidle,
                   tidx, tsame, tlist, result, countVars, lockVars>>

\* _addThread, line 305, right-hand side: self._threadCounter + 1
AddThreadRead(c) ==
    /\ pc[c] = "at_read"
    /\ tcnt' = [tcnt EXCEPT ![c] = threadCounter + 1]
    /\ pc' = [pc EXCEPT ![c] = "at_count"]
    /\ UNCHANGED <<poolVars, futVars, condVars, tf, tc, tval, tasx, tfunc, snapshot,
                   tret, tw, tidle, tidx, tsame, tlist, result, countVars, lockVars>>

\* _addThread, line 305, the assignment: self._threadCounter = (the sum)
AddThreadCount(c) ==
    /\ pc[c] = "at_count"
    /\ threadCounter' = tcnt[c]
    /\ tcnt' = [tcnt EXCEPT ![c] = 0]
    /\ pc' = [pc EXCEPT ![c] = "at_append"]
    /\ UNCHANGED <<minThreads, maxThreads, dead, pool, queue, created, busy, wjob, job,
                   futVars, condVars, tf, tc, tval, tasx, tfunc, snapshot, tret, tw, tidle,
                   tidx, tsame, tlist, result, countVars, lockVars>>

\* _addThread, line 306: self._pool.append(w), on the list self._pool names now
AddThreadAppend(c) ==
    /\ pc[c] = "at_append"
    /\ pool' = Append(pool, tw[c])
    /\ pc' = [pc EXCEPT ![c] = "at_start"]
    /\ UNCHANGED <<minThreads, maxThreads, dead, threadCounter, queue, created, busy, wjob, job,
                   futVars, condVars, localVars, result, countVars, lockVars>>

\* _addThread, lines 307-308: w.setDaemon(...); w.start().  start() returns
\* when the new thread runs; _addThread is over then.
AddThreadStart(c) ==
    /\ pc[c] = "at_start"
    /\ pc' = [pc EXCEPT ![tw[c]] = "w_top", ![c] = Head(tret[c])]
    /\ tret' = [tret EXCEPT ![c] = Tail(@)]
    /\ tw' = [tw EXCEPT ![c] = 0]
    /\ UNCHANGED <<poolVars, futVars, condVars, tf, tc, tval, tasx, tfunc, snapshot,
                   tcnt, tidle, tidx, tsame, tlist, result, countVars, lockVars>>

\* A Queue.put that queues the item twice.
Enqueued_Twice(q, item) == Append(Append(q, item), item)

\* put, line 346: Queue.Queue.put(self, item) on a queue without a size limit.
Enqueued(q, item) == Append(q, item)

\* put, lines 345-347: rv = ReturnValue(); Queue.put((item, rv, associated)); return rv
PutEnqueue(c) ==
    /\ pc[c] = "put_enq"
    /\ nFutures' = nFutures + 1
    /\ funcOf' = [funcOf EXCEPT ![nFutures + 1] = tfunc[c]]
    /\ queue' = Enqueued(queue, Job(tfunc[c], nFutures + 1))
    /\ result' = [result EXCEPT ![c] = Outcome("put", 0, "returned", <<"rv", nFutures + 1>>)]
    /\ tfunc' = [tfunc EXCEPT ![c] = Null]
    /\ pc' = [pc EXCEPT ![c] = "idle"]
    /\ UNCHANGED <<minThreads, maxThreads, dead, pool, threadCounter, created, busy, wjob, job,
                   fValue, fAsExc, fCond, condVars, tf, tc, tval, tasx, snapshot, frameVars,
                   countVars, lockVars>>

\* shutDown, line 316: self._dead = 1, in a shutDown that returns to back.
ShutDownFlag(c, back) ==
    /\ dead' = 1
    /\ pc' = [pc EXCEPT ![c] = "sd_iter"]
    /\ tret' = [tret EXCEPT ![c] = <<back>> \o @]

\* shutDown is called: line 316.
ShutDown(c) ==
    /\ pc[c] = "idle"
    /\ nShutDowns < MaxShutDowns
    /\ nShutDowns' = nShutDowns + 1
    /\ ShutDownFlag(c, "idle")
    /\ UNCHANGED <<minThreads, maxThreads, pool, threadCounter, queue, created, busy, wjob, job,
                   futVars, condVars, tf, tc, tval, tasx, tfunc, snapshot, tw, tcnt, tidle,
                   tidx, tsame, tlist, result, nLoads, tdead, lockVars>>

\* shutDown, line 317: for thread in self._pool, the loop is set up on the
\* list self._pool names now.
ShutDownIter(c) ==
    /\ pc[c] = "sd_iter"
    /\ tidx' = [tidx EXCEPT ![c] = 1]
    /\ tsame' = [tsame EXCEPT ![c] = 1]
    /\ pc' = [pc EXCEPT ![c] = "sd_next"]
    /\ UNCHANGED <<poolVars, futVars, condVars, tf, tc, tval, tasx, tfunc, snapshot,
                   tret, tw, tcnt, tidle, tlist, result, countVars, lockVars>>

\* A shutDown that queues one sentinel too few.
SentinelCount_Short(c) == Len(IterList(c)) - 1

\* shutDown, line 317: the length of the list the for loop runs over.
SentinelCount(c) == Len(IterList(c))

\* shutDown, lines 317-319: one pass of the loop,
\* Queue.Queue.put(self, (None, None, None)), or the end of the loop and of
\* shutDown, which returns to the position it was called from; called by the
\* client, the thread keeps the outcome.
ShutDownNext(c) ==
    /\ pc[c] = "sd_next"
    /\ IF tidx[c] <= SentinelCount(c)
       THEN /\ queue' = Enqueued(queue, Sentinel)
            /\ tidx' = [tidx EXCEPT ![c] = @ + 1]
            /\ UNCHANGED <<pc, tret, tsame, tlist, result>>
       ELSE /\ pc' = [pc EXCEPT ![c] = Head(tret[c])]
            /\ tret' = [tret EXCEPT ![c] = Tail(@)]
            /\ tidx' = [tidx EXCEPT ![c] = 0]
            /\ tsame' = [tsame EXCEPT ![c] = 0]
            /\ tlist' = [tlist EXCEPT ![c] = <<>>]
            /\ result' = IF Head(tret[c]) = "idle"
                         THEN [result EXCEPT ![c] = Outcome("shutDown", 0, "returned", None)] ELSE result
            /\ UNCHANGED queue
    /\ UNCHANGED <<minThreads, maxThreads, dead, pool, threadCounter, created, busy, wjob, job,
                   futVars, condVars, tf, tc, tval, tasx, tfunc, snapshot, tw, tcnt, tidle,
                   countVars, lockVars>>

ShutDownStep(c) == ShutDownIter(c) \/ ShutDownNext(c)

\* restart, line 322: if not self._dead
RestartCall(c) ==
    /\ pc[c] = "idle"
    /\ nShutDowns < MaxShutDowns
    /\ nShutDowns' = nShutDowns + 1
    /\ pc' = [pc EXCEPT ![c] = IF IsShutDown THEN "rs_wait" ELSE "rs_shut"]
    /\ UNCHANGED <<poolVars, futVars, condVars, localVars, result, nLoads, tdead, lockVars>>

\* restart, line 323: self.shutDown()
RestartShutDown(c) ==
    /\ pc[c] = "rs_shut"
    /\ ShutDownFlag(c, "rs_wait")
    /\ UNCHANGED <<minThreads, maxThreads, pool, threadCounter, queue, created, busy, wjob, job,
                   futVars, condVars, tf, tc, tval, tasx, tfunc, snapshot, tw, tcnt, tidle,
                   tidx, tsame, tlist, result, countVars, lockVars>>

\* restart, line 324: while self.getLiveThreads(): the call, whose filter is
\* set up on the list self._pool names now.
RestartWait(c) ==
    /\ pc[c] = "rs_wait"
    /\ snapshot' = [snapshot EXCEPT ![c] = <<>>]
    /\ tidx' = [tidx EXCEPT ![c] = 1]
    /\ tsame' = [tsame EXCEPT ![c] = 1]
    /\ tret' = [tret EXCEPT ![c] = <<"rs_test">> \o @]
    /\ pc' = [pc EXCEPT ![c] = "lv_next"]
    /\ UNCHANGED <<poolVars, futVars, condVars, tf, tc, tval, tasx, tfunc, tw, tcnt, tidle, tlist,
                   result, countVars, lockVars>>

\* restart, lines 324-325: the test of the list getLiveThreads returned, and
\* sleep(100) when it is not empty.  The module defines no name sleep (it
\* imports time), so the first pass through the loop body raises NameError.
RestartTest(c) ==
    /\ pc[c] = "rs_test"
    /\ pc' = [pc EXCEPT ![c] = "idle"]
    /\ snapshot' = [snapshot EXCEPT ![c] = <<>>]
    /\ result' = [result EXCEPT ![c] =
                     IF snapshot[c] # <<>>
                     THEN Outcome("restart", 0, "raised", <<"nameerror", 0>>)
                     ELSE Outcome("restart", 0, "returned", None)]
    /\ UNCHANGED <<poolVars, futVars, condVars, tf, tc, tval, tasx, tfunc, frameVars,
                   countVars, lockVars>>

\* Async.__call__, line 169: return self._pool.put(self._func); fn is the
\* function the wrapper was built with, the arguments of the call are dropped.
AsyncCall(c, fn) == PutBegin(c, fn)

\* The client evaluates one of the futures put() gave it.
EvalCall(c, f) ==
    /\ pc[c] = "idle"
    /\ f \in 1..nFutures
    /\ tf' = [tf EXCEPT ![c] = f]
    /\ pc' = [pc EXCEPT ![c] = "ev_check"]
    /\ UNCHANGED <<poolVars, futVars, condVars, tc, tval, tasx, tfunc, snapshot, frameVars,
                   result, countVars, lockVars>>

\* The steps of a thread inside put, checkThreads or _addThread.
PutStep(c) ==
    \/ CheckThreadsLive(c) \/ LiveThreadsNext(c) \/ CheckThreadsPrune(c)
    \/ CheckThreadsMin(c) \/ CheckThreadsIdle(c) \/ IdleThreadsNext(c)
    \/ CheckThreadsGrow(c) \/ CheckThreadsCeiling(c)
    \/ AddThreadNew(c) \/ AddThreadRead(c) \/ AddThreadCount(c)
    \/ AddThreadAppend(c) \/ AddThreadStart(c)
    \/ PutEnqueue(c)

\* ------------------------------------------------------------------- VLock
\* A call is over (acquire, release or Locked.__call__): the thread is idle
\* again and keeps the outcome.
Return(t, outcome) ==
    /\ pc' = [pc EXCEPT ![t] = "idle"]
    /\ result' = [result EXCEPT ![t] = outcome]
    /\ inLocked' = [inLocked EXCEPT ![t] = 0]
    /\ tblocking' = [tblocking EXCEPT ![t] = 1]
    /\ tval' = [tval EXCEPT ![t] = None]
    /\ tl' = [tl EXCEPT ![t] = 0]
    /\ tobj' = [tobj EXCEPT ![t] = 0]
    /\ tcall' = [tcall EXCEPT ![t] = ""]
    /\ UNCHANGED <<tf, tc, tasx, tfunc, snapshot, frameVars>>

\* A step inside a call that changes no thread local.
Step(t, nextpc) ==
    /\ pc' = [pc EXCEPT ![t] = nextpc]
    /\ UNCHANGED <<localVars, result, inLocked, tblocking, tl, tobj, tcall>>

\* VLock.acquire(blocking) is called.  The bound is on the hold count and on
\* the sums that threads inside line 212 or 217 have yet to store.
AcquireCall(t, blocking) ==
    /\ pc[t] = "idle"
    /\ ownerlocks[TheLock] < MaxHold
    /\ \A u \in LockThreads : tcnt[u] < MaxHold
    /\ pc' = [pc EXCEPT ![t] = "vl_append"]
    /\ tblocking' = [tblocking EXCEPT ![t] = blocking]
    /\ tl' = [tl EXCEPT ![t] = TheLock]
    /\ UNCHANGED <<poolVars, futVars, condVars, localVars, result, countVars,
                   lock, owner, lqueue, ownerlocks, inLocked, regVars, tobj, tcall>>

\* acquire, line 209: self.queue.append(thread)
AcquireAppend(t) ==
    /\ pc[t] = "vl_append"
    /\ lqueue' = [lqueue EXCEPT ![tl[t]] = Append(@, t)]
    /\ Step(t, "vl_lock")
    /\ UNCHANGED <<poolVars, futVars, condVars, countVars, regVars, lock, owner, ownerlocks>>

\* A blocking Lock.acquire that does not wait.
LockFree_Always(l) == TRUE

\* threading.Lock.acquire(1) goes on only when the lock is free.
LockFree(l) == lock[l] = 0

\* acquire, line 210: self.lock.acquire(blocking).  A blocking call waits for
\* the lock; a non-blocking call takes it if it is free and returns at once
\* either way, and acquire does not look at what it returned.
AcquireLock(t) ==
    /\ pc[t] = "vl_lock"
    /\ tblocking[t] # 0 => LockFree(tl[t])
    /\ lock' = [lock EXCEPT ![tl[t]] = 1]
    /\ Step(t, "vl_remove")
    /\ UNCHANGED <<poolVars, futVars, condVars, countVars, regVars, owner, lqueue, ownerlocks>>

\* A list.remove that removes nothing.
Remove_Nothing(q, x) == q

\* list.remove(x): the list without its first x.
RECURSIVE Remove(_, _)
Remove(q, x) ==
    IF q = <<>> THEN <<>>
    ELSE IF Head(q) = x THEN Tail(q)
    ELSE <<Head(q)>> \o Remove(Tail(q), x)

\* acquire, line 211: self.queue.remove(thread)
AcquireRemove(t) ==
    /\ pc[t] = "vl_remove"
    /\ lqueue' = [lqueue EXCEPT ![tl[t]] = Remove(@, t)]
    /\ Step(t, "vl_count")
    /\ UNCHANGED <<poolVars, futVars, condVars, countVars, regVars, lock, owner, ownerlocks>>

\* acquire, line 212, right-hand side: self.ownerlocks + 1
AcquireRead(t) ==
    /\ pc[t] = "vl_count"
    /\ tcnt' = [tcnt EXCEPT ![t] = ownerlocks[tl[t]] + 1]
    /\ pc' = [pc EXCEPT ![t] = "vl_store"]
    /\ UNCHANGED <<tf, tc, tval, tasx, tfunc, snapshot, tret, tw, tidle, tidx, tsame, tlist,
                   result, inLocked, tblocking, tl, tobj, tcall>>
    /\ UNCHANGED <<poolVars, futVars, condVars, countVars, regVars, lock, owner, lqueue, ownerlocks>>

\* acquire, line 212, the assignment: self.ownerlocks = (the sum)
AcquireCount(t) ==
    /\ pc[t] = "vl_store"
    /\ ownerlocks' = [ownerlocks EXCEPT ![tl[t]] = tcnt[t]]
    /\ tcnt' = [tcnt EXCEPT ![t] = 0]
    /\ pc' = [pc EXCEPT ![t] = "vl_owner"]
    /\ UNCHANGED <<tf, tc, tval, tasx, tfunc, snapshot, tret, tw, tidle, tidx, tsame, tlist,
                   result, inLocked, tblocking, tl, tobj, tcall>>
    /\ UNCHANGED <<poolVars, futVars, condVars, countVars, regVars, lock, owner, lqueue>>

\* What the caller gets when acquire is over: lock(object) returns None as
\* acquire itself does.
AcquireOutcome(t) ==
    IF tcall[t] = "lock" THEN Outcome("lock", tobj[t], "returned", None) ELSE Outcome("acquire", 0, "returned", None)

\* acquire, line 213: self.owner = thread, and acquire returns: into the body
\* of Locked.__call__ (line 184) or to the caller.
AcquireOwner(t) ==
    /\ pc[t] = "vl_owner"
    /\ owner' = [owner EXCEPT ![tl[t]] = t]
    /\ IF inLocked[t] # 0 THEN Step(t, "lk_f") ELSE Return(t, AcquireOutcome(t))
    /\ UNCHANGED <<poolVars, futVars, condVars, countVars, regVars, lock, lqueue, ownerlocks>>

AcquireStep(t) ==
    \/ AcquireAppend(t) \/ AcquireLock(t) \/ AcquireRemove(t)
    \/ AcquireRead(t) \/ AcquireCount(t) \/ AcquireOwner(t)

\* VLock.release() is called.
ReleaseCall(t) ==
    /\ pc[t] = "idle"
    /\ ownerlocks[TheLock] > 0 - MaxHold
    /\ \A u \in LockThreads : tcnt[u] > 0 - MaxHold
    /\ pc' = [pc EXCEPT ![t] = "vr_assert"]
    /\ tl' = [tl EXCEPT ![t] = TheLock]
    /\ UNCHANGED <<localVars, result, inLocked, tblocking, tobj, tcall>>
    /\ UNCHANGED <<poolVars, futVars, condVars, countVars, regVars, lock, owner, lqueue, ownerlocks>>

\* How release ends for its caller.  Inside Locked.__call__ it runs in the
\* finally clause: the call then returns None, or raises what the function
\* raised (kept in tval); an exception of release itself replaces both.
ReleaseOutcome(t, v) ==
    IF inLocked[t] # 0
    THEN IF tval[t] = None THEN Outcome("Locked", 0, "returned", None)
         ELSE Outcome("Locked", 0, "raised", tval[t])
    ELSE IF tcall[t] = "unlock" THEN Outcome("unlock", tobj[t], "returned", None)
    ELSE Outcome("release", 0, "returned", Val(v))
ReleaseRaised(t, what) ==
    IF tcall[t] = "unlock" THEN Outcome("unlock", tobj[t], "raised", <<what, 0>>)
    ELSE Outcome(IF inLocked[t] # 0 THEN "Locked" ELSE "release", 0, "raised", <<what, 0>>)

\* An owner test that every thread passes.
IsOwner_Always(t) == TRUE

\* release, line 216: threading.currentThread() == self.owner
IsOwner(t) == owner[tl[t]] = t

\* release, line 216: assert threading.currentThread() == self.owner
ReleaseAssert(t) ==
    /\ pc[t] = "vr_assert"
    /\ IF IsOwner(t) THEN Step(t, "vr_count") ELSE Return(t, ReleaseRaised(t, "assertion"))
    /\ UNCHANGED <<poolVars, futVars, condVars, countVars, regVars, lock, owner, lqueue, ownerlocks>>

\* release, line 217, right-hand side: self.ownerlocks - 1
ReleaseRead(t) ==
    /\ pc[t] = "vr_count"
    /\ tcnt' = [tcnt EXCEPT ![t] = ownerlocks[tl[t]] - 1]
    /\ pc' = [pc EXCEPT ![t] = "vr_store"]
    /\ UNCHANGED <<tf, tc, tval, tasx, tfunc, snapshot, tret, tw, tidle, tidx, tsame, tlist,
                   result, inLocked, tblocking, tl, tobj, tcall>>
    /\ UNCHANGED <<poolVars, futVars, condVars, countVars, regVars, lock, owner, lqueue, ownerlocks>>

\* release, line 217, the assignment: self.ownerlocks = (the difference)
ReleaseCount(t) ==
    /\ pc[t] = "vr_store"
    /\ ownerlocks' = [ownerlocks EXCEPT ![tl[t]] = tcnt[t]]
    /\ tcnt' = [tcnt EXCEPT ![t] = 0]
    /\ pc' = [pc EXCEPT ![t] = "vr_test"]
    /\ UNCHANGED <<tf, tc, tval, tasx, tfunc, snapshot, tret, tw, tidle, tidx, tsame, tlist,
                   result, inLocked, tblocking, tl, tobj, tcall>>
    /\ UNCHANGED <<poolVars, futVars, condVars, countVars, regVars, lock, owner, lqueue>>

\* release, line 218: if self.ownerlocks == 0, and lines 222-223 when it is
\* not: return 0
ReleaseTest(t) ==
    /\ pc[t] = "vr_test"
    /\ IF ownerlocks[tl[t]] = 0
       THEN Step(t, "vr_owner")
       ELSE Return(t, ReleaseOutcome(t, 0))
    /\ UNCHANGED <<poolVars, futVars, condVars, countVars, regVars, lock, owner, lqueue, ownerlocks>>

\* release, line 219: self.owner = None
ReleaseOwner(t) ==
    /\ pc[t] = "vr_owner"
    /\ owner' = [owner EXCEPT ![tl[t]] = 0]
    /\ Step(t, "vr_unlock")
    /\ UNCHANGED <<poolVars, futVars, condVars, countVars, regVars, lock, lqueue, ownerlocks>>

\* release, lines 220-221: self.lock.release(); return 1.  Releasing a
\* threading.Lock that is not locked raises.
ReleaseUnlock(t) ==
    /\ pc[t] = "vr_unlock"
    /\ IF lock[tl[t]] # 0
       THEN /\ lock' = [lock EXCEPT ![tl[t]] = 0]
            /\ Return(t, ReleaseOutcome(t, 1))
       ELSE /\ Return(t, ReleaseRaised(t, "unlocked"))
            /\ UNCHANGED lock
    /\ UNCHANGED <<poolVars, futVars, condVars, countVars, regVars, owner, lqueue, ownerlocks>>

ReleaseStep(t) ==
    \/ ReleaseAssert(t) \/ ReleaseRead(t) \/ ReleaseCount(t)
    \/ ReleaseTest(t) \/ ReleaseOwner(t) \/ ReleaseUnlock(t)

\* Locked.__call__, line 182: self._lock.acquire()
LockedCall(t) ==
    /\ pc[t] = "idle"
    /\ pc' = [pc EXCEPT ![t] = "vl_append"]
    /\ inLocked' = [inLocked EXCEPT ![t] = 1]
    /\ tl' = [tl EXCEPT ![t] = TheLock]
    /\ UNCHANGED <<poolVars, futVars, condVars, localVars, result, countVars,
                   lock, owner, lqueue, ownerlocks, tblocking, regVars, tobj, tcall>>

\* A call that releases the lock only when the function returns.
AfterBody_NoFinally(raises) == IF raises THEN "idle" ELSE "vr_assert"

\* Locked.__call__, lines 185-186: finally: self._lock.release(), whether
\* the function returned or raised.
AfterBody(raises) == "vr_assert"

\* Locked.__call__, lines 183-186: the function runs (pc = "lk_f" while it
\* does) and returns or raises; the finally clause then calls release().
LockedBody(t, raises) ==
    /\ pc[t] = "lk_f"
    /\ pc' = [pc EXCEPT ![t] = AfterBody(raises)]
    /\ tval' = [tval EXCEPT ![t] = IF raises THEN Err(1) ELSE None]
    /\ UNCHANGED <<poolVars, futVars, condVars, tf, tc, tasx, tfunc, snapshot, frameVars, result,
                   countVars, lockVars>>

\* ------------------------------------------------- the dictionary of locks
\* A has_key that never finds the key.
HasLock_Never(o) == FALSE

\* A has_key that finds every key.
HasLock_Always(o) == TRUE

\* _locks.has_key(object), lines 235 and 263
HasLock(o) == locks[o] # 0

\* A thread enters getLockFor(object), called by the program (what =
\* "getLockFor") or from lock(object), line 255 (what = "lock"), and tests
\* line 235: if not _locks.has_key(object)
RegistryEnter(t, o, what) ==
    /\ pc[t] = "idle"
    /\ pc' = [pc EXCEPT ![t] = IF HasLock(o) THEN "gl_read" ELSE "gl_new"]
    /\ tobj' = [tobj EXCEPT ![t] = o]
    /\ tcall' = [tcall EXCEPT ![t] = what]
    /\ UNCHANGED <<poolVars, futVars, condVars, localVars, result, countVars,
                   lock, owner, lqueue, ownerlocks, tblocking, inLocked, regVars, tl>>

GetLockForCall(t, o) == RegistryEnter(t, o, "getLockFor")
LockCall(t, o) == RegistryEnter(t, o, "lock")

\* getLockFor, line 236: _locks[object] = VLock()
GetLockForNew(t) ==
    /\ pc[t] = "gl_new"
    /\ nVLocks < MaxVLocks
    /\ nVLocks' = nVLocks + 1
    /\ locks' = [locks EXCEPT ![tobj[t]] = nVLocks + 1]
    /\ Step(t, "gl_read")
    /\ UNCHANGED <<poolVars, futVars, condVars, countVars, lock, owner, lqueue, ownerlocks>>

GetLockForReturned(o, l) == Outcome("getLockFor", o, "returned", <<"vlock", l>>)

\* getLockFor, lines 237-238: lock = _locks[object]; return lock.  In
\* lock(object) the caller goes on with lock.acquire(), line 256.
GetLockForRead(t) ==
    /\ pc[t] = "gl_read"
    /\ IF locks[tobj[t]] = 0
       THEN Return(t, KeyError(tcall[t], tobj[t]))
       ELSE IF tcall[t] = "lock"
       THEN /\ pc' = [pc EXCEPT ![t] = "vl_append"]
            /\ tl' = [tl EXCEPT ![t] = locks[tobj[t]]]
            /\ UNCHANGED <<localVars, result, inLocked, tblocking, tobj, tcall>>
       ELSE Return(t, GetLockForReturned(tobj[t], locks[tobj[t]]))
    /\ UNCHANGED <<poolVars, futVars, condVars, countVars, regVars,
                   lock, owner, lqueue, ownerlocks>>

\* unlock, lines 263-264: if not _locks.has_key(object): return
UnlockCall(t, o) ==
    /\ pc[t] = "idle"
    /\ IF HasLock(o)
       THEN /\ pc' = [pc EXCEPT ![t] = "ul_read"]
            /\ tobj' = [tobj EXCEPT ![t] = o]
            /\ tcall' = [tcall EXCEPT ![t] = "unlock"]
            /\ UNCHANGED <<localVars, result, inLocked, tblocking, tl>>
       ELSE Return(t, Outcome("unlock", o, "returned", None))
    /\ UNCHANGED <<poolVars, futVars, condVars, countVars, regVars,
                   lock, owner, lqueue, ownerlocks>>

\* unlock, lines 265-266: lock = _locks[object]; lock.release()
UnlockRead(t) ==
    /\ pc[t] = "ul_read"
    /\ IF locks[tobj[t]] = 0
       THEN Return(t, KeyError("unlock", tobj[t]))
       ELSE /\ pc' = [pc EXCEPT ![t] = "vr_assert"]
            /\ tl' = [tl EXCEPT ![t] = locks[tobj[t]]]
            /\ UNCHANGED <<localVars, result, inLocked, tblocking, tobj, tcall>>
    /\ UNCHANGED <<poolVars, futVars, condVars, countVars, regVars,
                   lock, owner, lqueue, ownerlocks>>

\* A del that empties the dictionary.
Deleted_All(d, o) == [x \in DOMAIN d |-> 0]

\* del _locks[object]: the dictionary without the key.
Deleted(d, o) == [d EXCEPT ![o] = 0]

\* deleteLockFor, lines 244-247: del _locks[object], and the KeyError of an
\* object without an entry is swallowed by the bare except.
DeleteLockForCall(t, o) ==
    /\ pc[t] = "idle"
    /\ locks' = Deleted(locks, o)
    /\ Return(t, Outcome("deleteLockFor", o, "returned", None))
    /\ UNCHANGED <<poolVars, futVars, condVars, countVars, nVLocks,
                   lock, owner, lqueue, ownerlocks>>

RegistryStep(t) ==
    \/ GetLockForNew(t) \/ GetLockForRead(t) \/ UnlockRead(t)
    \/ AcquireStep(t) \/ ReleaseStep(t)

\* The state of a program that has built one VLock and no pool.
InitNoPool ==
    /\ InitCommon
    /\ minThreads = 0 /\ maxThreads = 0 /\ dead = 0 /\ pool = <<>>
    /\ threadCounter = 0 /\ created = 0 /\ queue = <<>>

\* A program that has built no VLock itself: its threads use the dictionary
\* of locks, each making its calls one after the other.
InitRegistry ==
    /\ InitNoPool
    /\ nFutures = 0
    /\ nVLocks = 0
    /\ pc = [t \in Threads |-> IF t \in LockThreads THEN "idle" ELSE "off"]
RegistryCall(t, o) == GetLockForCall(t, o) \/ LockCall(t, o) \/ UnlockCall(t, o)

\* The threads use the same object (object 1), at any time, each in its own
\* call.
NextRegistry ==
    \E t \in LockThreads : RegistryCall(t, 1) \/ RegistryStep(t)
SpecRegistry == InitRegistry /\ [][NextRegistry]_vars

\* No call is under way and able to go on.
Quiet == \A t \in LockThreads : pc[t] = "idle" \/ (pc[t] = "vl_lock" /\ ~LockFree(tl[t]))

\* The threads use any of the objects, and a call begins only when no other
\* call is under way: the calls of the program are a sequential series.
NextRegistrySeq ==
    \E t \in LockThreads :
        \/ Quiet /\ \E o \in Objects : RegistryCall(t, o)
        \/ RegistryStep(t)
SpecRegistrySeq == InitRegistry /\ [][NextRegistrySeq]_vars

\* The sequential series of calls of a program that also deletes entries.
NextRegistryDel ==
    \E t \in LockThreads :
        \/ Quiet /\ \E o \in Objects : RegistryCall(t, o) \/ DeleteLockForCall(t, o)
        \/ RegistryStep(t)
SpecRegistryDel == InitRegistry /\ [][NextRegistryDel]_vars

\* Threads that call the same Locked wrapper again and again.
InitLocked ==
    /\ InitNoPool
    /\ nFutures = 0
    /\ nVLocks = 1
    /\ pc = [t \in Threads |-> IF t \in LockThreads THEN "idle" ELSE "off"]
NextLocked ==
    \E t \in LockThreads :
        \/ LockedCall(t)
        \/ AcquireStep(t)
        \/ \E raises \in BOOLEAN : LockedBody(t, raises)
        \/ ReleaseStep(t)
SpecLocked == InitLocked /\ [][NextLocked]_vars

\* Threads that call acquire (blocking or not) and release on one VLock in
\* any order.
NextVLock ==
    \E t \in LockThreads :
        \/ \E blocking \in {0, 1} : AcquireCall(t, blocking)
        \/ AcquireStep(t)
        \/ ReleaseCall(t)
        \/ ReleaseStep(t)
SpecVLock == InitLocked /\ [][NextVLock]_vars

\* ------------------------------------------------- ReturnValue on its own
\* ReturnValue.load(val, asException) is called.
LoadCall(t, f, v, asx) ==
    /\ pc[t] = "idle"
    /\ nLoads < MaxLoads
    /\ nLoads' = nLoads + 1
    /\ pc' = [pc EXCEPT ![t] = "ld_asx"]
    /\ tf' = [tf EXCEPT ![t] = f]
    /\ tval' = [tval EXCEPT ![t] = v]
    /\ tasx' = [tasx EXCEPT ![t] = asx]
    /\ UNCHANGED <<poolVars, futVars, condVars, tc, tfunc, snapshot, frameVars, result, nShutDowns,
                   tdead, lockVars>>

\* One ReturnValue, reader threads that evaluate it and a thread that loads
\* it: with a value, with an error and the flag set, or with a value and the
\* flag set.
InitFuture ==
    /\ InitNoPool
    /\ nFutures = 1
    /\ nVLocks = 0
    /\ pc = [t \in Threads |-> IF t \in Readers \cup {Loader} THEN "idle" ELSE "off"]
NextFuture ==
    \/ \E r \in Readers : EvalCall(r, 1) \/ EvalStep(r)
    \/ \E a \in {<<Val(1), 0>>, <<Err(1), 1>>, <<Val(1), 1>>} : LoadCall(Loader, 1, a[1], a[2])
    \/ LoadStep(Loader)
SpecFuture == InitFuture /\ [][NextFuture]_vars

\* load as it runs on a future nobody waits on (no _condition stored).
LoadPlain(t) == LoadFlag(t) \/ LoadValue(t) \/ LoadCheck(t)

\* The pool with one client thread, which submits callables and may shut the
\* pool down, and the workers.
Init == InitPool(Nat, 0..MaxMaxThreads, {Client})
Next ==
    \/ \E fn \in {Returns(1), Fatal} : PutBegin(Client, fn)
    \/ PutStep(Client)
    \/ ShutDown(Client)
    \/ ShutDownStep(Client)
    \/ \E w \in WorkerIds : WorkerStep(w) \/ LoadPlain(w)
Spec == Init /\ [][Next]_vars

\* The same pool, whose client may also call checkThreads() and restart().
NextRestart ==
    \/ Next
    \/ CheckThreadsCall(Client)
    \/ RestartCall(Client)
    \/ RestartShutDown(Client)
    \/ RestartWait(Client)
    \/ RestartTest(Client)
SpecRestart == Init /\ [][NextRestart]_vars

\* A pool that is never shut down, whose client submits through Async
\* wrappers only.
NextAsync ==
    \/ \E fn \in AppFuncs : AsyncCall(Client, fn)
    \/ PutStep(Client)
    \/ \E w \in WorkerIds : WorkerStep(w) \/ LoadPlain(w)
SpecAsync == Init /\ [][NextAsync]_vars

\* Scheduling: a thread that can take a step is not held back forever.  The
\* workers' steps and the steps of a thread inside put(), checkThreads() or
\* shutDown() are fair; whether a thread calls put, shutDown or eval at all
\* is its own choice.
Fairness ==
    /\ \A w \in WorkerIds : WF_vars(WorkerStep(w) \/ LoadStep(w))
    /\ WF_vars(PutStep(Client) \/ ShutDownStep(Client))

\* A weaker assumption: as long as some thread can take a step inside the
\* pool, one of them does.
Progress ==
    WF_vars(\/ \E w \in WorkerIds : WorkerStep(w) \/ LoadStep(w)
            \/ PutStep(Client) \/ ShutDownStep(Client))
SpecFair == Spec /\ Progress

\* A pool constructed with minThreads = 1 and maxThreads 1 or 2, whose client
\* submits callables and may call checkThreads() on its own, and which is
\* never shut down.  A client thread
\* that can take a step inside put() or checkThreads() is not held back
\* forever; nothing is assumed about the workers.
NextCheck ==
    \/ \E fn \in {Returns(1), Fatal} : PutBegin(Client, fn)
    \/ PutStep(Client)
    \/ CheckThreadsCall(Client)
    \/ \E w \in WorkerIds : WorkerStep(w) \/ LoadPlain(w)
SpecCheck ==
    /\ InitPool({1}, {1, 2}, {Client})
    /\ [][NextCheck]_vars /\ WF_vars(PutStep(Client))

\* A pool that is never shut down, whose client submits callables that return
\* or raise an application error.
NextBurst ==
    \/ \E fn \in AppFuncs : PutBegin(Client, fn)
    \/ PutStep(Client)
    \/ \E w \in WorkerIds : WorkerStep(w) \/ LoadPlain(w)
SpecBurst == Init /\ [][NextBurst]_vars /\ Progress

\* A pool whose client submits callables that return or raise an application
\* error, and may shut the pool down.
NextDrain ==
    \/ \E fn \in AppFuncs : PutBegin(Client, fn)
    \/ PutStep(Client)
    \/ ShutDown(Client)
    \/ ShutDownStep(Client)
    \/ \E w \in WorkerIds : WorkerStep(w) \/ LoadPlain(w)
SpecDrain == Init /\ [][NextDrain]_vars /\ Fairness

\* A pool that is never shut down and two threads that submit callables to it
\* at the same time.
NextClients ==
    \/ \E c \in Clients :
          \/ PutBegin(c, Returns(1))
          \/ PutStep(c)
    \/ \E w \in WorkerIds : WorkerStep(w) \/ LoadPlain(w)
SpecClients == InitPool(Nat, 0..MaxMaxThreads, Clients) /\ [][NextClients]_vars

\* A pool of one worker at most whose client also evaluates the futures it got.
NextEval ==
    \/ \E fn \in AppFuncs : PutBegin(Client, fn)
    \/ PutStep(Client)
    \/ \E f \in FutureIds : EvalCall(Client, f)
    \/ EvalStep(Client)
    \/ \E w \in WorkerIds : WorkerStep(w) \/ LoadStep(w)
SpecEval == InitPool(Nat, {1}, {Client}) /\ [][NextEval]_vars

\* A pool to which one thread submits callables that return a value while
\* another thread may shut it down.
NextRace ==
    \/ PutBegin(Client, Returns(1))
    \/ PutStep(Client)
    \/ \E c \in Clients \ {Client} : ShutDown(c) \/ ShutDownStep(c)
    \/ \E w \in WorkerIds : WorkerStep(w) \/ LoadPlain(w)
SpecRace ==
    /\ InitPool(Nat, 0..MaxMaxThreads, Clients) /\ [][NextRace]_vars /\ Fairness
    /\ \A c \in Clients \ {Client} : WF_vars(ShutDownStep(c))

\* A pool of one worker at most whose client submits callables that return a
\* value, and two threads, the client one of them, that evaluate the futures.
NextReaders ==
    \/ PutBegin(Client, Returns(1))
    \/ PutStep(Client)
    \/ \E r \in Readers : (\E f \in FutureIds : EvalCall(r, f)) \/ EvalStep(r)
    \/ \E w \in WorkerIds : WorkerStep(w) \/ LoadStep(w) \/ WorkerExit(w)
SpecReaders == InitPool(Nat, {1}, Readers) /\ [][NextReaders]_vars

\* A pool of one worker at most whose client submits callables of every kind,
\* the command to terminate among them, evaluates the futures it got and may
\* shut the pool down.
NextJobs ==
    \/ \E fn \in {Returns(1), Fatal, Null} : PutBegin(Client, fn)
    \/ PutStep(Client)
    \/ ShutDown(Client)
    \/ ShutDownStep(Client)
    \/ \E f \in FutureIds : EvalCall(Client, f)
    \/ EvalStep(Client)
    \/ \E w \in WorkerIds : WorkerStep(w) \/ LoadStep(w) \/ WorkerExit(w)
SpecJobs == InitPool(Nat, {1}, {Client}) /\ [][NextJobs]_vars

\* ------------------------------------------------------------------ claims
LiveWorkers == {w \in WorkerIds : isAlive(w)}

\* C1 (result fidelity): when eval() on the future put() returned for a
\* callable that returns v is over, it has returned, and returned exactly v.
C1_ResultFidelity ==
    \A f \in 1..nFutures :
        (result[Client].op = "eval" /\ result[Client].arg = f /\ funcOf[f][1] = "ret")
            => result[Client] = Outcome("eval", f, "returned", Val(funcOf[f][2]))
\* eval() has returned the value of a job that returns one.
C1_Witness ==
    \E f \in 1..nFutures :
        /\ funcOf[f] = Returns(1)
        /\ result[Client] = Outcome("eval", f, "returned", Val(1))

\* C2 (error round-trip): a worker that ran a callable raising E stores E in
\* the future with the error flag set, and an eval() of that future that is
\* over has raised E.
C2_ErrorRoundTrip ==
    \A f \in 1..nFutures :
        funcOf[f][1] = "raise" =>
            /\ fValue[f] # Unset => (fValue[f] = Err(funcOf[f][2]) /\ fAsExc[f] = 1)
            /\ (result[Client].op = "eval" /\ result[Client].arg = f)
                   => result[Client] = Outcome("eval", f, "raised", Err(funcOf[f][2]))
\* eval() has raised the error of a job that raises one.
C2_Witness ==
    \E f \in 1..nFutures :
        /\ funcOf[f] = Raises(1)
        /\ fAsExc[f] = 1
        /\ result[Client] = Outcome("eval", f, "raised", Err(1))

\* C5 (elasticity bound): with one submitting thread the number of live
\* workers never exceeds maxThreads.
C5_ElasticityBound == Cardinality(LiveWorkers) <= maxThreads
\* After a burst of more than maxThreads submissions the pool is at its
\* ceiling with more work queued than it has idle workers.
C5_Witness ==
    /\ maxThreads >= 1
    /\ nFutures > maxThreads
    /\ Cardinality(LiveWorkers) = maxThreads
    /\ Len(getIdleThreads) < qsize

\* C7 (submission after shutdown): once the pool is shut down it stays so, and
\* a put() fails with the pool-shut-down error and leaves the queue, the
\* futures and the workers as they were.
C7_PutAfterShutDownRejected ==
    [][/\ dead # 0 => dead' # 0
       /\ (dead # 0 /\ \E fn \in AppFuncs \cup {Fatal, Null} : PutBegin(Client, fn))
            => /\ result'[Client] = PoolShutDown
               /\ UNCHANGED <<pc, queue, nFutures, pool, created, threadCounter, funcOf>>]_vars
\* A put() was rejected by a pool that was shut down with workers alive.
C7_Witness ==
    /\ dead # 0
    /\ result[Client] = PoolShutDown
    /\ LiveWorkers # {}

\* C6 (burst liveness), as claimed: once more than maxThreads jobs have been
\* submitted to a pool that is not shut down, every submitted future is
\* eventually resolved.
C6_BurstLiveness_AsClaimed ==
    \A f \in 1..MaxJobs :
        (nFutures > maxThreads /\ f <= nFutures) ~> (fValue[f] # Unset)
\* C6 as amended: the same for a pool with maxThreads >= 1.
C6_BurstLiveness ==
    \A f \in 1..MaxJobs :
        (maxThreads >= 1 /\ nFutures > maxThreads /\ f <= nFutures) ~> (fValue[f] # Unset)
\* A burst of more than maxThreads >= 1 jobs, all resolved.
C6_Witness ==
    /\ maxThreads >= 1
    /\ nFutures > maxThreads
    /\ \A f \in 1..nFutures : fValue[f] # Unset

\* C8 (shutdown termination): after shutDown() every worker eventually
\* terminates.
C8_ShutDownTerminates ==
    (dead # 0) ~> (\A w \in WorkerIds : ~isAlive(w))
\* The pool was shut down while a job was queued, and all its workers have
\* terminated, one of them on a sentinel.
C8_Witness ==
    /\ dead # 0
    /\ nFutures >= 1
    /\ created >= 1
    /\ \A w \in WorkerIds : ~isAlive(w)
    /\ \E w \in WorkerIds : pc[w] = "dead" /\ wjob[w] = Sentinel

\* C3 (no lost wake-up): once the worker's load() of a future is over, the
\* reader that evaluates it is not left asleep in wait() with nobody to
\* notify it.
C3_NoLostWakeUp ==
    \A f \in 1..nFutures :
        ~ /\ fValue[f] # Unset
          /\ \A w \in WorkerIds : tf[w] # f
          /\ pc[Client] = "ev_waiting"
          /\ tf[Client] = f
          /\ Client \in condWaiters[tc[Client]]

\* C4 (multiple readers): the notifyAll() of a load() wakes every reader that
\* is asleep in wait() on the future.
C4_LoadWakesAllReaders ==
    [][(pc[Loader] = "ld_notify" /\ pc'[Loader] = "ld_rel")
          => \A r \in Readers :
                 (pc[r] = "ev_waiting" /\ tf[r] = tf[Loader]) => r \notin condWaiters'[tc[r]]]_vars

\* C9 (mutual exclusion): at most one thread is inside the function of a
\* Locked wrapper.
C9_MutualExclusion == Cardinality({t \in LockThreads : pc[t] = "lk_f"}) <= 1
\* One thread runs the function while the other is held at the lock.
C9_Witness ==
    \E t, u \in LockThreads :
        /\ pc[t] = "lk_f"
        /\ pc[u] = "vl_lock"
        /\ u \in {lqueue[TheLock][i] : i \in 1..Len(lqueue[TheLock])}

\* C10 (reentrancy): a blocking acquire() by the thread that owns the lock
\* is not held at the underlying lock.
C10_OwnerAcquiresWithoutBlocking ==
    \A t \in LockThreads :
        (pc[t] = "vl_lock" /\ tblocking[t] # 0 /\ owner[TheLock] = t /\ ownerlocks[TheLock] > 0) => LockFree(TheLock)

\* The threads in getWaiting() of VLock l.
Waiting(l) == {lqueue[l][i] : i \in 1..Len(lqueue[l])}

\* C11 (visible queue): a thread held in acquire() at the underlying lock is
\* in getWaiting(); when its acquire() returns it is not in getWaiting() any
\* more and getOwner() is that thread.
C11_VisibleQueue ==
    [][\A t \in LockThreads :
          /\ (pc'[t] = "vl_lock" /\ ~LockFree(TheLock)') => t \in Waiting(TheLock)'
          /\ (pc[t] = "vl_owner" /\ pc'[t] = "idle")
                => (t \notin Waiting(TheLock)' /\ owner'[TheLock] = t)]_vars
\* One thread's acquire() has returned and it owns the lock, while the
\* other is held in a blocking acquire() and is in getWaiting().
C11_Witness ==
    \E t, u \in LockThreads :
        /\ t # u
        /\ result[u] = Outcome("acquire", 0, "returned", None) /\ pc[u] = "idle"
        /\ owner[TheLock] = u /\ u \notin Waiting(TheLock)
        /\ pc[t] = "vl_lock" /\ tblocking[t] # 0 /\ t \in Waiting(TheLock)

\* C12 (non-blocking acquire on an unavailable lock): while another thread
\* holds the lock and is in no call, no step of an acquire(0) changes the
\* owner or the hold count, and the caller is out of the wait queue when the
\* call returns.
C12_NonBlockingAcquireFails ==
    [][\A t, u \in LockThreads :
          (/\ t # u /\ owner[TheLock] = u /\ pc[u] = "idle" /\ ownerlocks[TheLock] > 0 /\ ~LockFree(TheLock)
           /\ tblocking[t] = 0
           /\ pc[t] \in {"vl_lock", "vl_remove", "vl_count", "vl_store", "vl_owner"}
           /\ pc'[t] # pc[t])
            => /\ owner'[TheLock] = owner[TheLock] /\ ownerlocks'[TheLock] = ownerlocks[TheLock]
               /\ pc'[t] = "idle" => t \notin Waiting(TheLock)']_vars

\* C13 (release by a non-owner): a release() by a thread that is not the
\* owner, or on a lock nobody owns, raises the assertion error and leaves
\* owner, hold count, underlying lock and wait queue as they were.
C13_ReleaseByNonOwner ==
    [][\A t \in LockThreads :
          (pc[t] = "vr_assert" /\ owner[TheLock] # t /\ pc'[t] # pc[t])
            => /\ pc'[t] = "idle"
               /\ result'[t] = Outcome("release", 0, "raised", <<"assertion", 0>>)
               /\ UNCHANGED <<owner[TheLock], ownerlocks[TheLock], lock[TheLock], lqueue[TheLock]>>]_vars
\* A thread's release() of a lock that another thread owns has been refused.
C13_Witness ==
    \E t, u \in LockThreads :
        /\ t # u
        /\ result[t] = Outcome("release", 0, "raised", <<"assertion", 0>>)
        /\ owner[TheLock] = u /\ ownerlocks[TheLock] > 0 /\ ~LockFree(TheLock)

\* C14 (VLock state invariant): whenever no acquire() or release() is under
\* way, the hold count is greater than zero exactly if an owner is set.
C14_HoldCountIffOwner ==
    (\A t \in LockThreads : pc[t] = "idle") => (ownerlocks[TheLock] > 0 <=> owner[TheLock] # 0)

\* C15 (nested release): the assignment of line 217 in a release() by the
\* owner leaves the hold count one below what it was; the call ends at the
\* test of the count, returning 0 with owner and underlying lock as they
\* were, exactly if the count is not zero; it clears the owner next if the
\* count is zero; and it returns 1 only with the owner cleared and the
\* underlying lock released.
C15_NestedRelease ==
    [][\A t \in LockThreads :
          /\ (pc[t] = "vr_store" /\ pc'[t] # pc[t]) => ownerlocks'[TheLock] = ownerlocks[TheLock] - 1
          /\ (pc[t] = "vr_test" /\ pc'[t] # pc[t])
                => /\ UNCHANGED <<owner[TheLock], lock[TheLock], ownerlocks[TheLock]>>
                   /\ IF ownerlocks[TheLock] = 0
                      THEN pc'[t] = "vr_owner"
                      ELSE /\ pc'[t] = "idle"
                           /\ result'[t] = Outcome("release", 0, "returned", Val(0))
          /\ (pc[t] = "vr_owner" /\ pc'[t] # pc[t]) => (owner'[TheLock] = 0 /\ pc'[t] = "vr_unlock")
          /\ (pc[t] # "idle" /\ pc'[t] = "idle"
               /\ result'[t] = Outcome("release", 0, "returned", Val(1)))
                => (pc[t] = "vr_unlock" /\ owner'[TheLock] # t /\ lock[TheLock] # 0 /\ lock'[TheLock] = 0)]_vars

\* The tracked workers that are alive.
LiveTracked == {w \in LiveWorkers : \E i \in 1..Len(pool) : pool[i] = w}

\* The step in which the rescale check of thread c completes: the test of
\* line 337 fails, or line 341 leaves the loop.
CheckDone(c) ==
    /\ pc[c] \in {"ct_grow", "ct_ceil"}
    /\ pc'[c] \in {"put_enq", "idle"}

\* C16 (min-threads floor), as claimed: a new pool has at least minThreads
\* live tracked workers, and so has the pool whenever a rescale check of a
\* put() completes.
C16_MinThreadsFloor_AsClaimed ==
    /\ Cardinality(LiveTracked) >= minThreads
    /\ [][CheckDone(Client) => Cardinality(LiveTracked') >= minThreads']_vars
\* C16 as amended: the same for the rescale checks during which no tracked
\* worker terminated.
C16_MinThreadsFloor ==
    /\ Cardinality(LiveTracked) >= minThreads
    /\ [][(/\ CheckDone(Client)
           /\ \A i \in 1..Len(pool') : pc'[pool'[i]] # "dead")
            => Cardinality(LiveTracked') >= minThreads']_vars
\* A rescale check has completed after it replaced a worker that a fatal
\* error had terminated, and the pool is at its floor again.
C16_Witness ==
    /\ pc[Client] = "put_enq"
    /\ minThreads >= 1
    /\ created > minThreads
    /\ \E w \in WorkerIds : pc[w] = "dead"
    /\ \A i \in 1..Len(pool) : pc[pool[i]] # "dead"
    /\ Cardinality(LiveTracked) >= minThreads

\* C17 (repeated reads): once a future holds its value, the value and the
\* error flag stay as they are; an eval() that finds the value goes straight
\* on to read it, without waiting; every eval() that ends hands back the
\* stored value, raised or returned as the stored flag says; and no step of
\* an eval() touches the queue or a worker.
C17_RepeatedReads ==
    [][/\ \A f \in 1..nFutures :
            fValue[f] # Unset => (fValue'[f] = fValue[f] /\ fAsExc'[f] = fAsExc[f])
       /\ (pc[Client] = "ev_check" /\ fValue[tf[Client]] # Unset /\ pc'[Client] # pc[Client])
            => pc'[Client] = "ev_read"
       /\ (pc[Client] = "ev_ret" /\ pc'[Client] = "idle")
            => LET f == tf[Client] IN
                 result'[Client] = Outcome("eval", f,
                                           IF fAsExc[f] # 0 THEN "raised" ELSE "returned",
                                           fValue[f])
       /\ (pc[Client] \in {"ev_check", "ev_read", "ev_ret"} /\ pc'[Client] # pc[Client])
            => UNCHANGED <<queue, busy, wjob, job, futVars>>]_vars
\* A second eval() of a future is about to hand back the error that the
\* first one raised.
C17_Witness ==
    \E f \in 1..nFutures :
        /\ pc[Client] = "ev_ret" /\ tf[Client] = f
        /\ result[Client] = Outcome("eval", f, "raised", Err(1))
        /\ fValue[f] = Err(1) /\ tasx[Client] = 1

\* C18 (write-once future): a load() on a future that holds a value already
\* leaves the stored value and the stored error flag as they are.
C18_WriteOnce ==
    [][\A f \in 1..nFutures :
          fValue[f] # Unset => (fValue'[f] = fValue[f] /\ fAsExc'[f] = fAsExc[f])]_vars

\* C19 (submit ordering): the rescale check of a put() counts the job being
\* submitted, so it does not end without starting a worker while no tracked
\* worker is idle and fewer than maxThreads workers are tracked.
C19_CheckCountsSubmittedJob ==
    [][(CheckDone(Client) /\ pc'[Client] = "put_enq")
          => ~(Len(getIdleThreads) = 0 /\ Len(pool) < maxThreads)]_vars

\* C20 (serialized pool mutation): with two threads in put() at the same
\* time the live workers are never more than maxThreads, and every live
\* worker is tracked.
C20_SerializedMutation ==
    /\ Cardinality(LiveWorkers) <= maxThreads
    /\ LiveWorkers = LiveTracked

\* The VLock instances thread t has got for object o: from a getLockFor that
\* returned, or inside a lock(object) that is going on.
Obtained(t, o) ==
    {l \in VLockIds : \/ result[t] = GetLockForReturned(o, l)
                      \/ tcall[t] = "lock" /\ tobj[t] = o /\ tl[t] = l}

\* C21 (atomic lazy creation): threads that call getLockFor or lock at the
\* same time for an object that has no lock yet all get the same VLock, and
\* no more VLocks are ever registered than there are objects with a lock.
C21_AtomicLazyCreation ==
    /\ \A o \in Objects : \A t1, t2 \in LockThreads :
           \A l1 \in Obtained(t1, o) : \A l2 \in Obtained(t2, o) : l1 = l2
    /\ nVLocks = Cardinality({o \in Objects : locks[o] # 0})

\* C22 (FIFO dispatch): futures are numbered in the order in which their
\* put() calls queued them and returned; when a worker dequeues a job, every
\* job still queued was submitted after it.
C22_FifoDispatch ==
    [][\A w \in WorkerIds :
          (pc[w] = "w_get" /\ pc'[w] = "w_busy" /\ job'[w].rv > 0)
            => \A i \in 1..Len(queue') :
                   queue'[i].rv = 0 \/ queue'[i].rv > job'[w].rv]_vars
\* A worker has dequeued the first job while the second one, submitted
\* later, is still queued.
C22_Witness ==
    \E w \in WorkerIds :
        /\ pc[w] = "w_busy" /\ job[w].rv = 1
        /\ \E i \in 1..Len(queue) : queue[i].rv = 2

\* C23 (fatal job error): a worker whose job raises an error that is no
\* StandardError terminates at once and resolves nothing; the future of such
\* a job is never resolved, and no eval() of it ever ends.
C23_FatalJobError ==
    [][/\ \A w \in WorkerIds :
            (pc[w] = "w_run" /\ job[w].func = Fatal /\ pc'[w] # pc[w])
                => (pc'[w] = "dead" /\ UNCHANGED futVars)
       /\ \A f \in 1..nFutures' :
            funcOf'[f] = Fatal
                => /\ fValue'[f] = Unset /\ fAsExc'[f] = -1
                   /\ ~(result'[Client].op = "eval" /\ result'[Client].arg = f)]_vars
\* The client sleeps in eval() on the future of a job whose fatal error has
\* terminated the worker that ran it.
C23_Witness ==
    \E w \in WorkerIds :
        /\ pc[w] = "dead" /\ job[w].func = Fatal /\ job[w].rv = tf[Client]
        /\ pc[Client] = "ev_waiting"
        /\ Client \in condWaiters[tc[Client]]
        /\ fValue[tf[Client]] = Unset

\* C24 (worker survives job failure): a worker that runs a job whose
\* callable raises an application error gets back to the point where it
\* takes the next job, not busy and with no current job; when its load() is
\* over the error is stored in the job's future and the error flag is set.
C24_WorkerSurvivesJobFailure ==
    /\ \A w \in WorkerIds :
           (pc[w] = "w_run" /\ job[w].func = Raises(1))
               ~> (pc[w] = "w_get" /\ busy[w] = 0 /\ wjob[w] = NoJob)
    /\ [](\A w \in WorkerIds :
             (pc[w] = "w_clear" /\ job[w].func = Raises(1))
                 => (fValue[job[w].rv] = Err(1) /\ fAsExc[job[w].rv] = 1))
\* The only worker of the pool stored the error of the first job and is
\* running the second one.
C24_Witness ==
    /\ created = 1
    /\ funcOf[1] = Raises(1) /\ fValue[1] = Err(1) /\ fAsExc[1] = 1
    /\ \E w \in WorkerIds : pc[w] = "w_run" /\ job[w].rv = 2

\* C25 (sentinel handling): a worker that has dequeued a job with nothing in
\* the callable position never gets back to the queue; it is past its load,
\* returning from run or terminated, only with None stored in the job's
\* future, if the job has one; and such a future never holds anything but
\* None, stored as a value.
C25_SentinelHandling ==
    /\ \A w \in WorkerIds :
          (job[w].func = Null /\ job[w].rv >= 0)
              => /\ pc[w] \notin {"w_top", "w_get", "w_clear"}
                 /\ (pc[w] \in {"w_exit", "dead"} /\ job[w].rv > 0)
                        => (fValue[job[w].rv] = None /\ fAsExc[job[w].rv] = 0)
    /\ \A f \in 1..nFutures :
          (funcOf[f] = Null /\ fValue[f] # Unset) => (fValue[f] = None /\ fAsExc[f] = 0)
\* A worker has terminated on a sentinel that came with a future, which
\* holds None, and has left a later job in the queue.
C25_Witness ==
    \E w \in WorkerIds :
        /\ pc[w] = "dead" /\ job[w].func = Null /\ job[w].rv > 0
        /\ fValue[job[w].rv] = None
        /\ queue # <<>>

\* C26 (guaranteed release in Locked): a thread that is in no call of the
\* wrapper does not own the lock, and with no call under way the hold count
\* is zero and the underlying lock is free; a call whose function raised
\* ends by raising that error, any other call by returning.
C26_GuaranteedRelease ==
    [][/\ \A t \in LockThreads : pc'[t] = "idle" => owner'[TheLock] # t
       /\ (\A t \in LockThreads : pc'[t] = "idle")
            => (ownerlocks'[TheLock] = 0 /\ LockFree(TheLock)' /\ owner'[TheLock] = 0)
       /\ \A t \in LockThreads :
            (pc[t] # "idle" /\ pc'[t] = "idle")
                => result'[t] = IF tval[t] = None
                                THEN Outcome("Locked", 0, "returned", None)
                                ELSE Outcome("Locked", 0, "raised", Err(1))]_vars
\* A call of the wrapper has raised the error of its function, and the lock
\* is free with a hold count of zero.
C26_Witness ==
    /\ \A t \in LockThreads : pc[t] = "idle"
    /\ \E t \in LockThreads : result[t] = Outcome("Locked", 0, "raised", Err(1))
    /\ ownerlocks[TheLock] = 0 /\ LockFree(TheLock) /\ owner[TheLock] = 0

\* C27 (stable registry mapping): in a sequential series of getLockFor, lock
\* and unlock calls, the entry of an object is never replaced once it is set,
\* a VLock is built only for an object that has no entry, and a getLockFor
\* that returns hands back the registered VLock of its object.
C27_StableRegistryMapping ==
    [][/\ \A o \in Objects :
             /\ locks[o] # 0 => locks'[o] = locks[o]
             /\ locks'[o] # locks[o] => nVLocks' = nVLocks + 1 /\ locks'[o] = nVLocks'
       /\ nVLocks' = Cardinality({o \in Objects : locks'[o] # 0})
       /\ \A t \in LockThreads :
             (pc[t] = "gl_read" /\ tcall[t] = "getLockFor" /\ pc'[t] = "idle")
               => /\ locks[tobj[t]] # 0
                  /\ result'[t] = GetLockForReturned(tobj[t], locks[tobj[t]])]_vars
\* Both objects have their own VLock; a thread holds the lock of an object
\* through lock(object), and a getLockFor of the other thread for the same
\* object has returned the registered VLock.
C27_Witness ==
    \E o \in Objects : \E t1, t2 \in LockThreads :
        /\ nVLocks = 2 /\ locks[o] # 0
        /\ result[t1] = Outcome("lock", o, "returned", None)
        /\ owner[locks[o]] = t1
        /\ pc[t2] = "idle"
        /\ result[t2] = GetLockForReturned(o, locks[o])

\* C28 (restart): a restart() that is over has returned, no tracked worker
\* is alive then, and the pool is still shut down; every put() after it
\* fails with the pool-shut-down error.
C28_RestartWaitsAndStaysShutDown ==
    /\ result[Client].op = "restart"
          => /\ result[Client].kind = "returned"
             /\ SelectSeq(pool, isAlive) = <<>>
             /\ dead # 0
    /\ (pc[Client] = "idle" /\ result[Client].op = "put" /\ nShutDowns > 0)
          => result[Client] = PoolShutDown

\* C29 (Async dispatch): the queue grows only in the last step of a call of
\* an Async wrapper, by exactly one job, which holds the wrapped callable and
\* a new future; the call returns that future in the same step, and the
\* future holds no value then.
C29_AsyncDispatch ==
    [][/\ Len(queue') > Len(queue) => (pc[Client] = "put_enq" /\ pc'[Client] = "idle")
       /\ (pc[Client] = "put_enq" /\ pc'[Client] = "idle")
            => /\ nFutures' = nFutures + 1
               /\ queue' = Append(queue, Job(tfunc[Client], nFutures'))
               /\ funcOf'[nFutures'] = tfunc[Client]
               /\ result'[Client] = Outcome("put", 0, "returned", <<"rv", nFutures'>>)
               /\ fValue'[nFutures'] = Unset]_vars
\* A call of an Async wrapper has returned a future that holds no value,
\* its job is queued, and no worker has been started yet.
C29_Witness ==
    /\ pc[Client] = "idle"
    /\ result[Client] = Outcome("put", 0, "returned", <<"rv", 1>>)
    /\ fValue[1] = Unset
    /\ queue = <<Job(funcOf[1], 1)>>
    /\ created = 0

\* C30 (unlock without a lock): unlock(object) for an object that has no
\* entry returns None in one step and leaves the dictionary of locks and
\* every VLock as they were.
C30_UnlockUnregisteredNoOp ==
    [][\A t \in LockThreads : \A o \in Objects :
          (locks[o] = 0 /\ UnlockCall(t, o))
            => /\ pc'[t] = "idle"
               /\ result'[t] = Outcome("unlock", o, "returned", None)
               /\ UNCHANGED <<nVLocks, locks, lock, owner, lqueue, ownerlocks>>]_vars
\* An unlock of an object without an entry has returned while the other
\* object has a VLock, which a thread holds.
C30_Witness ==
    \E o, o2 \in Objects : \E t \in LockThreads :
        /\ locks[o] = 0 /\ locks[o2] # 0
        /\ owner[locks[o2]] # 0
        /\ pc[t] = "idle"
        /\ result[t] = Outcome("unlock", o, "returned", None)

\* C31 (deleteLockFor): a deleteLockFor(object) returns None in one step,
\* leaves the object without an entry and every other entry and every VLock
\* as they were; for an object without an entry nothing changes.
C31_DeleteLockFor ==
    [][\A t \in LockThreads : \A o \in Objects :
          DeleteLockForCall(t, o)
            => /\ result'[t] = Outcome("deleteLockFor", o, "returned", None)
               /\ pc'[t] = "idle"
               /\ locks'[o] = 0
               /\ \A o2 \in Objects \ {o} : locks'[o2] = locks[o2]
               /\ locks[o] = 0 => locks' = locks
               /\ UNCHANGED <<nVLocks, lock, owner, lqueue, ownerlocks>>]_vars
\* A deleteLockFor has removed the entry of an object that had one, and the
\* other object still has its VLock.
C31_Witness ==
    \E o, o2 \in Objects : \E t \in LockThreads :
        /\ result[t] = Outcome("deleteLockFor", o, "returned", None)
        /\ pc[t] = "idle"
        /\ locks[o] = 0 /\ locks[o2] # 0
        /\ nVLocks = 2

\* The workers in a list of threads.
Members(q) == {q[i] : i \in 1..Len(q)}

\* Thread c is inside checkThreads, or inside the getLiveThreads,
\* getIdleThreads or _addThread it called.
InCheck(c) ==
    pc[c] \in {"ct_live", "lv_next", "ct_prune", "ct_min", "ct_idle", "id_next", "ct_grow",
               "ct_ceil", "at_new", "at_read", "at_count", "at_append", "at_start"}

\* C32 (rescale postcondition), as claimed: when a rescale check completes,
\* every tracked worker is alive, and the idle tracked workers are at least
\* as many as the queued jobs or maxThreads workers are tracked; and the
\* check always terminates: with the steps of the client thread scheduled
\* fairly, a check the thread has begun is over at some later time (or
\* stands at _addThread with every Worker object of the model in use).
C32_RescalePostcondition_AsClaimed ==
    /\ [][CheckDone(Client)
             => /\ \A w \in Members(pool') : pc'[w] \notin {"off", "dead"}
                /\ Len(getIdleThreads') >= qsize' \/ Len(pool') >= maxThreads']_vars
    /\ InCheck(Client)
          ~> (~InCheck(Client) \/ (pc[Client] = "at_new" /\ created = MaxWorkers))
\* C32 as amended: when a rescale check completes, every tracked worker is
\* alive or has terminated since the check began (none of the workers that
\* had terminated before is tracked any more), and the idle tracked workers
\* the check counted at line 337 are at least as many as the queued jobs or
\* maxThreads workers are tracked; and the check always terminates, as
\* above.
C32_RescalePostcondition ==
    /\ [][CheckDone(Client)
             => /\ \A w \in Members(pool') :
                       \/ pc'[w] \notin {"off", "dead"}
                       \/ pc'[w] = "dead" /\ w \notin tdead[Client]
                /\ tidle[Client] >= qsize' \/ Len(pool') >= maxThreads']_vars
    /\ InCheck(Client)
          ~> (~InCheck(Client) \/ (pc[Client] = "at_new" /\ created = MaxWorkers))
\* A rescale check has completed that pruned a worker a fatal error had
\* terminated and started another one: the tracked workers are alive, as
\* many as maxThreads, and no job is queued.
C32_Witness ==
    /\ pc[Client] = "put_enq"
    /\ \E w \in WorkerIds : pc[w] = "dead" /\ w \notin Members(pool)
    /\ pool # <<>>
    /\ \A w \in Members(pool) : isAlive(w)
    /\ Len(pool) = maxThreads
    /\ Len(getIdleThreads) >= qsize

\* C33 (shutdown step): a shutDown() sets the flag in its first step; then it
\* appends one sentinel behind all that is queued for every worker tracked,
\* no more and no fewer, while the tracked list stays as it is; it returns
\* None; none of its steps waits for a worker or for the queue; and it
\* changes nothing else of the pool, the workers and the futures.
C33_ShutDownStep ==
    /\ [](pc[Client] \in {"sd_iter", "sd_next"} => ENABLED ShutDownStep(Client))
    /\ [][ /\ ShutDown(Client)
              => (dead' = 1 /\ pc'[Client] = "sd_iter" /\ UNCHANGED <<queue, pool>>)
           /\ (pc[Client] = "sd_iter" /\ pc'[Client] # pc[Client])
              => (pc'[Client] = "sd_next" /\ tidx'[Client] = 1 /\ UNCHANGED <<queue, pool, dead>>)
           /\ (pc[Client] = "sd_next" /\ tidx'[Client] # tidx[Client])
              => /\ dead = 1 /\ UNCHANGED <<pool, dead, created, busy, wjob, job, futVars>>
                 /\ IF tidx[Client] <= Len(pool)
                    THEN /\ queue' = Append(queue, Job(Null, 0))
                         /\ tidx'[Client] = tidx[Client] + 1
                         /\ pc'[Client] = "sd_next"
                    ELSE /\ tidx[Client] = Len(pool) + 1
                         /\ queue' = queue
                         /\ pc'[Client] = "idle"
                         /\ result'[Client] = Outcome("shutDown", 0, "returned", None)
           /\ pc[Client] \in {"sd_iter", "sd_next"} => pool' = pool]_vars
\* shutDown() has returned while the worker runs a job and another job is
\* queued, with the one sentinel behind it.
C33_Witness ==
    /\ result[Client] = Outcome("shutDown", 0, "returned", None)
    /\ Len(pool) = 1
    /\ Len(queue) = 2
    /\ queue[1].func # Null /\ queue[2] = Sentinel
    /\ pc[pool[1]] = "w_run"

\* C34 (no cancellation): a worker dequeues only while it holds no job; it
\* lets go of a job with a callable only in the step after which the job's
\* future holds what the callable returned or raised; and it terminates only
\* in the step in which it looks at a sentinel it has dequeued, so never
\* while it holds a job with a callable.
C34_NoCancellation ==
    [][\A w \in WorkerIds :
          /\ (pc[w] = "w_get" /\ pc'[w] = "w_busy") => wjob[w] = NoJob
          /\ (wjob[w].func # Null /\ wjob'[w] # wjob[w])
                => /\ wjob[w].rv \in 1..nFutures
                   /\ wjob[w].func[1] = "ret" =>
                        (fValue'[wjob[w].rv] = Val(wjob[w].func[2]) /\ fAsExc'[wjob[w].rv] = 0)
                   /\ wjob[w].func[1] = "raise" =>
                        (fValue'[wjob[w].rv] = Err(wjob[w].func[2]) /\ fAsExc'[wjob[w].rv] = 1)
          /\ (pc'[w] = "dead" /\ pc[w] # "dead") => (pc[w] = "w_run" /\ job[w] = Sentinel)]_vars
\* The pool is shut down and a sentinel is the next item of the queue, while
\* the worker has just loaded the error its job raised and still holds the
\* job.
C34_Witness ==
    /\ dead # 0
    /\ queue # <<>> /\ Head(queue) = Sentinel
    /\ \E w \in WorkerIds :
          /\ pc[w] = "w_clear"
          /\ job[w].func = Raises(1)
          /\ fValue[job[w].rv] = Err(1)

\* Where the job of future f is: its places in the queue, and the workers
\* that hold it (a worker that is back at the top of its loop has let go of
\* the job it took last, which its local variable still names).
QueuedAt(f) == {i \in 1..Len(queue) : queue[i].rv = f}
HeldBy(f) == {w \in WorkerIds : job[w].rv = f /\ pc[w] \notin {"w_top", "w_get"}}
\* A job is in one place at most, and while it is queued or its worker has
\* not yet stored the value, its future holds none.
OneOwner ==
    \A f \in 1..nFutures :
        /\ Cardinality(QueuedAt(f)) + Cardinality(HeldBy(f)) <= 1
        /\ QueuedAt(f) # {} => fValue[f] = Unset
        /\ \A w \in HeldBy(f) :
              pc[w] \in {"w_busy", "w_setjob", "w_run", "ld_asx", "ld_val"} => fValue[f] = Unset

\* C35 (exactly-once processing): every job is in the queue once or held by
\* one worker, never both; the queue shrinks only by its head, which goes to
\* the one worker that takes the step; a worker calls the callable of the job
\* it holds in one step and never comes back to it; and a future gets its
\* value only once, from the worker that holds its job, and keeps it.
C35_ExactlyOnce ==
    /\ OneOwner
    /\ [][ /\ OneOwner'
           /\ Len(queue') < Len(queue)
                => /\ queue' = Tail(queue)
                   /\ \E w \in WorkerIds :
                         /\ pc[w] = "w_get" /\ pc'[w] = "w_busy"
                         /\ job'[w] = Head(queue)
                         /\ \A v \in WorkerIds \ {w} : job'[v] = job[v] /\ pc'[v] = pc[v]
           /\ \A w \in WorkerIds :
                 /\ job'[w] # job[w] => pc[w] = "w_get"
                 /\ (pc[w] = "w_clear" /\ pc'[w] # pc[w]) => wjob'[w] = NoJob
                 /\ pc'[w] = "w_run" => (pc[w] = "w_setjob" \/ pc[w] = "w_run")
           /\ \A f \in 1..nFutures :
                 fValue'[f] # fValue[f]
                   => /\ fValue[f] = Unset
                      /\ \E w \in HeldBy(f) : pc[w] = "ld_val" /\ pc'[w] = "ld_check"]_vars
\* Two workers have dequeued the jobs of two different futures: a fatal
\* error of its job has terminated the first, whose future holds no value,
\* and the second has stored the value of its job and still holds it.
C35_Witness ==
    \E w1, w2 \in WorkerIds :
        /\ job[w1].rv > 0 /\ job[w2].rv > 0 /\ job[w1].rv # job[w2].rv
        /\ pc[w1] = "dead" /\ fValue[job[w1].rv] = Unset
        /\ pc[w2] = "w_clear" /\ fValue[job[w2].rv] = Val(1)
        /\ queue = <<>>

\* C36 (worker lifetime): a worker terminates only in the step in which it
\* looks at a sentinel it has dequeued, and a tracked worker that is alive
\* stays tracked until it terminates.
C36_WorkerLifetime ==
    [][\A w \in WorkerIds :
          /\ (pc'[w] = "dead" /\ pc[w] # "dead") => (pc[w] = "w_run" /\ job[w].func = Null)
          /\ (w \in Members(pool) /\ w \notin Members(pool')) => pc[w] = "dead"]_vars

\* C37 (introspection consistency): in every state a worker whose _job is
\* not None is flagged busy, a worker flagged idle has _job = None, and no
\* worker that has terminated is in getIdleThreads().
C37_IntrospectionConsistency ==
    \A w \in WorkerIds :
        /\ wjob[w] # NoJob => busy[w] # 0
        /\ busy[w] = 0 => wjob[w] = NoJob
        /\ pc[w] = "dead" => w \notin Members(getIdleThreads)
\* A tracked worker has terminated on a sentinel, which is still its _job;
\* it is flagged busy and getIdleThreads() is empty.
C37_Witness ==
    \E w \in Members(pool) :
        /\ pc[w] = "dead"
        /\ wjob[w] = Sentinel
        /\ busy[w] = 1
        /\ getIdleThreads = <<>>

\* C38 (submit racing with shutdown): in a pool that starts with a worker,
\* every future that a put() has queued a job for is eventually resolved,
\* whenever another thread shuts the pool down.
C38_PutRacingShutDown ==
    \A f \in FutureIds :
        (minThreads >= 1 /\ f <= nFutures) ~> (fValue[f] # Unset)

\* No callable submitted so far raises a fatal error.
NoFatal == \A f \in 1..nFutures : funcOf[f] # Fatal

\* C39 (graceful drain): in a pool that is shut down and has started a
\* worker, none of whose callables raises a fatal error, every future a
\* put() returned is eventually resolved, and is resolved already when no
\* worker is alive any more.
C39_GracefulDrain ==
    /\ [](\A f \in 1..nFutures :
            (dead # 0 /\ created >= 1 /\ NoFatal /\ LiveWorkers = {}) => fValue[f] # Unset)
    /\ (dead # 0 /\ created >= 1 /\ NoFatal)
          ~> (\A f \in 1..nFutures : fValue[f] # Unset)
\* The pool is shut down, its worker has run both jobs that were queued
\* before, has taken the sentinel and terminated.
C39_Witness ==
    /\ dead # 0
    /\ created >= 1 /\ LiveWorkers = {}
    /\ queue = <<>>
    /\ nFutures = 2 /\ NoFatal
    /\ fValue[1] = Val(1) /\ fValue[2] = Val(1)
    /\ result[Client] = Outcome("shutDown", 0, "returned", None)

\* C40 (registry-level mutual exclusion): no two threads are at the same
\* time past a lock(object) that returned, with no call made since, for the
\* same object.
C40_RegistryMutualExclusion ==
    \A o \in Objects :
        Cardinality({t \in LockThreads :
                        pc[t] = "idle" /\ result[t] = Outcome("lock", o, "returned", None)}) <= 1

====
